---- MODULE Spec2Model ----
(***************************************************************************)
(* SistemaAprodmayo: a Django administration system (beneficiarias,        *)
(* finanzas, talleres, reportes, usuarios).  The module models the stored  *)
(* records the views read and write, one action per view, management       *)
(* command or script, and the pure rules they compute.                     *)
(*                                                                         *)
(* Dates are day numbers.  `ultima` is the response of the last operation: *)
(* which view ran, on which record, and what it read or answered.          *)
(***************************************************************************)
EXTENDS Integers, Sequences, FiniteSets

VARIABLES
    hoy,            \* timezone.now().date()
    talleres,       \* Taller table: id -> NoTaller or [estado, fecha_inicio, fecha_fin, capacidad]
    participantes,  \* Participante table: id -> NoParticipante or
                    \*   [taller, beneficiaria, dni, estado]
    certificados,   \* number of Certificado rows with estado EMITIDO per participante
    asistencias,    \* Asistencia table: id -> NoAsistencia or [participante, fecha, estado, ...]
    evaluaciones,   \* Evaluacion table: id -> NoEvaluacion or [participante]
    materiales,     \* Material table: id -> NoMaterial or [taller]
    acompanantes,   \* Acompanante table: id -> NoAcompanante or [beneficiaria]
    cargados,       \* the Taller objects a running recalculation holds in memory
    socios,         \* Socio table: id -> NoSocio or [fecha_registro]
    pagos,          \* PagoSocio table: id -> NoPago or [socio, fecha, comprobante]
    beneficiarias,  \* Beneficiaria table in id order: [nombres, apellidos, documento_identidad]
    usuarios,       \* Usuario table: id -> NoUsuario or [role, permiso_*]
    categorias,     \* Categoria table: id -> NoCategoria or [tipo, activo]
    transacciones,  \* Ingreso and Egreso rows: id -> NoTransaccion or [tipo, categoria]
    ultima          \* the last operation and its response

vars == <<hoy, talleres, participantes, certificados, asistencias, evaluaciones,
          materiales, acompanantes, cargados, socios, pagos, beneficiarias, usuarios, categorias,
          transacciones, ultima>>

varsTalleres == <<talleres, participantes, certificados>>
varsRegistros == <<asistencias, evaluaciones, materiales, acompanantes>>
varsSocios == <<socios, pagos>>
varsFinanzas == <<categorias, transacciones>>

(***************************************************************************)
(* Bounds of the model.                                                    *)
(***************************************************************************)
NumTalleres == 1
MaxDia == 2
NumParticipantes == 2

TallerIds == 1..NumTalleres
ParticipanteIds == 1..NumParticipantes
Fechas == 1..MaxDia          \* dates a form can submit

NoTaller == [estado |-> "NINGUNO"]
NoParticipante == [estado |-> "NINGUNO"]
\* a deleted row of Beneficiaria
NoBeneficiaria == [nombres |-> "NINGUNA"]

NumAsistencias == 2
NumEvaluaciones == 1
NumMateriales == 1
NumAcompanantes == 1

AsistenciaIds == 1..NumAsistencias
EvaluacionIds == 1..NumEvaluaciones
MaterialIds == 1..NumMateriales
AcompananteIds == 1..NumAcompanantes

NoAsistencia == [estado |-> "NINGUNO"]
NoEvaluacion == [participante |-> 0]
NoMaterial == [taller |-> 0]
NoAcompanante == [beneficiaria |-> 0]
\* no recalculation is running
NoCargados == [op |-> "NINGUNO"]

\* Taller.ESTADO_CHOICES
ESTADO_CHOICES == {"PROGRAMADO", "EN_CURSO", "FINALIZADO", "CANCELADO"}
\* Participante.ESTADO_CHOICES
PARTICIPANTE_ESTADO_CHOICES == {"PENDIENTE", "CONFIRMADO", "CANCELADO", "FINALIZADO"}

\* MinValueValidator(1) of Taller.capacidad
CAPACIDAD_MINIMA == 1

Existe(id) == talleres[id] # NoTaller

(***************************************************************************)
(* The status-derivation rule, one operator per copy in the source.        *)
(***************************************************************************)
\* TallerListView.actualizar_estados_talleres
EstadoListaMut(h, fi, ff) ==
    IF h <= fi THEN "PROGRAMADO" ELSE IF h <= ff THEN "EN_CURSO" ELSE "FINALIZADO"

EstadoLista(h, fi, ff) ==
    IF h < fi THEN "PROGRAMADO" ELSE IF h <= ff THEN "EN_CURSO" ELSE "FINALIZADO"

\* TallerDetailView.get_object
EstadoDetalle(h, fi, ff) ==
    IF h < fi THEN "PROGRAMADO" ELSE IF h <= ff THEN "EN_CURSO" ELSE "FINALIZADO"

\* TallerCreateView.form_valid
EstadoCreate(h, fi, ff) ==
    IF h < fi THEN "PROGRAMADO" ELSE IF h <= ff THEN "EN_CURSO" ELSE "FINALIZADO"

\* TallerUpdateView.form_valid
EstadoUpdateMut(h, fi, ff) ==
    IF h < fi THEN "PROGRAMADO" ELSE IF h < ff THEN "EN_CURSO" ELSE "FINALIZADO"

EstadoUpdate(h, fi, ff) ==
    IF h < fi THEN "PROGRAMADO" ELSE IF h <= ff THEN "EN_CURSO" ELSE "FINALIZADO"

\* management command actualizar_estados
EstadoComandoMut(h, fi, ff) ==
    IF h > fi THEN "PROGRAMADO" ELSE IF h <= ff THEN "EN_CURSO" ELSE "FINALIZADO"

EstadoComando(h, fi, ff) ==
    IF h < fi THEN "PROGRAMADO" ELSE IF h <= ff THEN "EN_CURSO" ELSE "FINALIZADO"

\* management command actualizar_estados_talleres
EstadoComandoTalleres(h, fi, ff) ==
    IF h < fi THEN "PROGRAMADO"
    ELSE IF fi <= h /\ h <= ff THEN "EN_CURSO" ELSE "FINALIZADO"

\* standalone script actualizar_estados.py
EstadoScriptMut(h, fi, ff) ==
    IF h > ff THEN "FINALIZADO" ELSE IF h < fi THEN "PROGRAMADO" ELSE "EN_CURSO"

EstadoScript(h, fi, ff) ==
    IF h < fi THEN "PROGRAMADO"
    ELSE IF fi <= h /\ h <= ff THEN "EN_CURSO" ELSE "FINALIZADO"

\* TallerForm.clean: the submission is rejected when fecha_fin < fecha_inicio
TallerFormValido(fi, ff) == ~(ff < fi)

Resp(op, id, ok, dato) == [op |-> op, id |-> id, ok |-> ok, dato |-> dato]

(***************************************************************************)
(* Workshop operations.                                                    *)
(***************************************************************************)
\* A day passes: timezone.now().date() advances.
PasaDia ==
    /\ hoy < MaxDia + 1
    /\ hoy' = hoy + 1
    /\ ultima' = Resp("PasaDia", 0, TRUE, "-")
    /\ UNCHANGED <<varsTalleres, varsRegistros, cargados,
                   varsSocios, varsFinanzas, beneficiarias, usuarios>>

\* TallerCreateView: TallerForm validation, then form_valid.
TallerCreate(id, est, fi, ff, cap) ==
    /\ ~Existe(id)
    /\ IF TallerFormValido(fi, ff)
       THEN /\ talleres' = [talleres EXCEPT ![id] =
                   [estado |-> IF est # "CANCELADO" THEN EstadoCreate(hoy, fi, ff) ELSE est,
                    fecha_inicio |-> fi, fecha_fin |-> ff, capacidad |-> cap]]
            /\ ultima' = Resp("TallerCreate", id, TRUE, "-")
       ELSE /\ talleres' = talleres
            /\ ultima' = Resp("TallerCreate", id, FALSE, "fecha_fin")
    /\ UNCHANGED <<hoy, participantes, certificados, varsRegistros, cargados,
                   varsSocios, varsFinanzas,
                   beneficiarias, usuarios>>

\* TallerUpdateView: TallerForm validation, then form_valid.
TallerUpdate(id, est, fi, ff, cap) ==
    /\ Existe(id)
    /\ IF TallerFormValido(fi, ff)
       THEN /\ talleres' = [talleres EXCEPT ![id] =
                   [estado |-> IF est # "CANCELADO" THEN EstadoUpdate(hoy, fi, ff) ELSE est,
                    fecha_inicio |-> fi, fecha_fin |-> ff, capacidad |-> cap]]
            /\ ultima' = Resp("TallerUpdate", id, TRUE, "-")
       ELSE /\ talleres' = talleres
            /\ ultima' = Resp("TallerUpdate", id, FALSE, "fecha_fin")
    /\ UNCHANGED <<hoy, participantes, certificados, varsRegistros, cargados,
                   varsSocios, varsFinanzas,
                   beneficiarias, usuarios>>

\* Participante.objects.filter(taller=tid)
ParticipantesDe(tid) ==
    {p \in ParticipanteIds :
        participantes[p] # NoParticipante /\ participantes[p].taller = tid}

\* on_delete=CASCADE of Asistencia.participante: the rows of the participants ps go
SinCascadaAsistencias(ps) == asistencias

CascadaAsistencias(ps) ==
    [a \in AsistenciaIds |->
        IF asistencias[a] # NoAsistencia /\ asistencias[a].participante \in ps
        THEN NoAsistencia ELSE asistencias[a]]

\* on_delete=CASCADE of Evaluacion.participante
CascadaEvaluaciones(ps) ==
    [e \in EvaluacionIds |->
        IF evaluaciones[e].participante \in ps THEN NoEvaluacion ELSE evaluaciones[e]]

\* on_delete=CASCADE of Certificado.participante
CascadaCertificados(ps) ==
    [p \in ParticipanteIds |-> IF p \in ps THEN 0 ELSE certificados[p]]

\* TallerDeleteView: the workshop goes, and on_delete=CASCADE takes its
\* materials, its participants and their attendance rows, evaluations and
\* certificates with it.
TallerDelete(id) ==
    /\ Existe(id)
    /\ talleres' = [talleres EXCEPT ![id] = NoTaller]
    /\ participantes' = [p \in ParticipanteIds |->
           IF p \in ParticipantesDe(id) THEN NoParticipante ELSE participantes[p]]
    /\ materiales' = [m \in MaterialIds |->
           IF materiales[m].taller = id THEN NoMaterial ELSE materiales[m]]
    /\ asistencias' = CascadaAsistencias(ParticipantesDe(id))
    /\ evaluaciones' = CascadaEvaluaciones(ParticipantesDe(id))
    /\ certificados' = CascadaCertificados(ParticipantesDe(id))
    /\ ultima' = Resp("TallerDelete", id, TRUE, Cardinality(ParticipantesDe(id)))
    /\ UNCHANGED <<hoy, acompanantes, cargados, varsSocios, varsFinanzas,
                   beneficiarias, usuarios>>

\* ParticipanteDeleteView: on_delete=CASCADE takes the participant's
\* attendance rows, evaluations and certificates.
ParticipanteDelete(pid) ==
    /\ participantes[pid] # NoParticipante
    /\ participantes' = [participantes EXCEPT ![pid] = NoParticipante]
    /\ asistencias' = CascadaAsistencias({pid})
    /\ evaluaciones' = CascadaEvaluaciones({pid})
    /\ certificados' = CascadaCertificados({pid})
    /\ ultima' = Resp("ParticipanteDeleteView", pid, TRUE, "-")
    /\ UNCHANGED <<hoy, talleres, materiales, acompanantes, cargados, varsSocios,
                   varsFinanzas, beneficiarias, usuarios>>

\* The loop of TallerListView.actualizar_estados_talleres over
\* Taller.objects.exclude(estado='CANCELADO').
RecalculoLista ==
    [id \in TallerIds |->
        IF Existe(id) /\ talleres[id].estado # "CANCELADO"
        THEN [talleres[id] EXCEPT !.estado =
                 EstadoLista(hoy, talleres[id].fecha_inicio, talleres[id].fecha_fin)]
        ELSE talleres[id]]

\* TallerListView.get_queryset: the list page refreshes every status first.
ListPage ==
    /\ talleres' = RecalculoLista
    /\ ultima' = Resp("TallerListView", 0, TRUE, "-")
    /\ UNCHANGED <<hoy, participantes, certificados, varsRegistros, cargados,
                   varsSocios, varsFinanzas,
                   beneficiarias, usuarios>>

\* TallerDetailView.get_object: the detail page refreshes its own workshop.
DetailPage(id) ==
    /\ Existe(id)
    /\ talleres' = [talleres EXCEPT ![id] =
           IF talleres[id].estado # "CANCELADO"
           THEN [talleres[id] EXCEPT !.estado =
                    EstadoDetalle(hoy, talleres[id].fecha_inicio, talleres[id].fecha_fin)]
           ELSE talleres[id]]
    /\ ultima' = Resp("TallerDetailView", id, TRUE, "-")
    /\ UNCHANGED <<hoy, participantes, certificados, varsRegistros, cargados,
                   varsSocios, varsFinanzas,
                   beneficiarias, usuarios>>

\* The loop of the management command actualizar_estados over
\* Taller.objects.exclude(estado='CANCELADO').
RecalculoComando ==
    [id \in TallerIds |->
        IF Existe(id) /\ talleres[id].estado # "CANCELADO"
        THEN [talleres[id] EXCEPT !.estado =
                 EstadoComando(hoy, talleres[id].fecha_inicio, talleres[id].fecha_fin)]
        ELSE talleres[id]]

\* talleres_actualizados: the number of workshops the command saved.
TalleresActualizados ==
    Cardinality({id \in TallerIds : RecalculoComando[id] # talleres[id]})

ComandoActualizarEstados ==
    /\ talleres' = RecalculoComando
    /\ ultima' = Resp("actualizar_estados", 0, TRUE, TalleresActualizados)
    /\ UNCHANGED <<hoy, participantes, certificados, varsRegistros, cargados,
                   varsSocios, varsFinanzas,
                   beneficiarias, usuarios>>

\* The loop of the management command actualizar_estados_talleres over
\* Taller.objects.all(): no workshop is skipped.
RecalculoComandoTalleres ==
    [id \in TallerIds |->
        IF Existe(id)
        THEN [talleres[id] EXCEPT !.estado =
                 EstadoComandoTalleres(hoy, talleres[id].fecha_inicio, talleres[id].fecha_fin)]
        ELSE talleres[id]]

ComandoActualizarEstadosTalleres ==
    /\ talleres' = RecalculoComandoTalleres
    /\ ultima' = Resp("actualizar_estados_talleres", 0, TRUE, "-")
    /\ UNCHANGED <<hoy, participantes, certificados, varsRegistros, cargados,
                   varsSocios, varsFinanzas,
                   beneficiarias, usuarios>>

\* The loop of the standalone script's actualizar_estados() over
\* Taller.objects.all(): no workshop is skipped.
RecalculoScript ==
    [id \in TallerIds |->
        IF Existe(id)
        THEN [talleres[id] EXCEPT !.estado =
                 EstadoScript(hoy, talleres[id].fecha_inicio, talleres[id].fecha_fin)]
        ELSE talleres[id]]

ScriptActualizarEstados ==
    /\ talleres' = RecalculoScript
    /\ ultima' = Resp("actualizar_estados.py", 0, TRUE, "-")
    /\ UNCHANGED <<hoy, participantes, certificados, varsRegistros, cargados,
                   varsSocios, varsFinanzas,
                   beneficiarias, usuarios>>

(***************************************************************************)
(* A recalculation as the requests of other users see it: the queryset is  *)
(* evaluated when the loop starts, and each changed status is written by   *)
(* its own save(update_fields=['estado']).                                 *)
(***************************************************************************)
\* the two loops that skip CANCELADO
RecalculosConExclusion == {"TallerListView", "actualizar_estados"}

\* for taller in Taller.objects.exclude(estado='CANCELADO'): the rows are
\* read into memory together with today's date.
RecalculoCarga(op) ==
    /\ cargados = NoCargados
    /\ cargados' = [op |-> op, hoy |-> hoy,
                    objetos |-> [id \in {i \in TallerIds :
                                           Existe(i) /\ talleres[i].estado # "CANCELADO"}
                                 |-> talleres[id]]]
    /\ ultima' = Resp(op, 0, TRUE, "cargado")
    /\ UNCHANGED <<hoy, varsTalleres, varsRegistros, varsSocios, varsFinanzas,
                   beneficiarias, usuarios>>

\* nuevo_estado of a loaded object
NuevoEstado(op, h, taller) ==
    IF op = "TallerListView"
    THEN EstadoLista(h, taller.fecha_inicio, taller.fecha_fin)
    ELSE EstadoComando(h, taller.fecha_inicio, taller.fecha_fin)

\* One turn of the loop for the loaded object id: when the loaded estado
\* differs from nuevo_estado, UPDATE ... SET estado = nuevo_estado on the row.
RecalculoGuarda(id) ==
    /\ cargados # NoCargados
    /\ id \in DOMAIN cargados.objetos
    /\ \A i \in DOMAIN cargados.objetos : id <= i
    /\ LET taller == cargados.objetos[id]
           nuevo_estado == NuevoEstado(cargados.op, cargados.hoy, taller)
           quedan == DOMAIN cargados.objetos \ {id}
       IN /\ talleres' = IF taller.estado # nuevo_estado /\ Existe(id)
                         THEN [talleres EXCEPT ![id].estado = nuevo_estado]
                         ELSE talleres
          /\ cargados' = IF quedan = {} THEN NoCargados
                         ELSE [cargados EXCEPT !.objetos =
                                  [i \in quedan |-> cargados.objetos[i]]]
          /\ ultima' = Resp(cargados.op, id, TRUE, nuevo_estado)
    /\ UNCHANGED <<hoy, participantes, certificados, varsRegistros, varsSocios,
                   varsFinanzas, beneficiarias, usuarios>>

\* a loop that found nothing to visit ends at once
RecalculoVacio ==
    /\ cargados # NoCargados
    /\ DOMAIN cargados.objetos = {}
    /\ cargados' = NoCargados
    /\ ultima' = Resp(cargados.op, 0, TRUE, "-")
    /\ UNCHANGED <<hoy, varsTalleres, varsRegistros, varsSocios, varsFinanzas,
                   beneficiarias, usuarios>>

(***************************************************************************)
(* Paths that read a workshop's stored estado.                             *)
(***************************************************************************)
\* Participante.beneficiaria is NULL (on_delete=SET_NULL, null=True)
SIN_BENEFICIARIA == 0

\* a row of Beneficiaria the ModelChoiceField of the form can select
BeneficiariaExiste(b) ==
    /\ b \in 1..Len(beneficiarias)
    /\ beneficiarias[b] # NoBeneficiaria

\* Taller.inscritos_count: participante_set.count()
inscritos_count(tid) ==
    Cardinality({p \in ParticipanteIds :
        participantes[p] # NoParticipante /\ participantes[p].taller = tid})

\* Taller.porcentaje_ocupacion: whole percent
porcentaje_ocupacion(tid) ==
    IF talleres[tid].capacidad <= 0 THEN 0
    ELSE (inscritos_count(tid) * 100) \div talleres[tid].capacidad

\* ModelForm validate_unique over Participante.Meta.unique_together: the pairs
\* (taller, beneficiaria) and (taller, dni), the row being edited excluded; a
\* pair with a NULL member is not checked.
UnicoSoloDni(pid, tid, dni, ben) ==
    \A q \in ParticipanteIds \ {pid} :
        (participantes[q] # NoParticipante /\ participantes[q].taller = tid)
        => participantes[q].dni # dni

UnicoEnTaller(pid, tid, dni, ben) ==
    \A q \in ParticipanteIds \ {pid} :
        (participantes[q] # NoParticipante /\ participantes[q].taller = tid)
        => /\ participantes[q].dni # dni
           /\ ben # SIN_BENEFICIARIA => participantes[q].beneficiaria # ben

\* ParticipanteForm: taller and beneficiaria are choices among stored rows,
\* then the uniqueness checks.
ParticipanteFormValido(pid, tid, dni, ben) ==
    /\ Existe(tid)
    /\ ben # SIN_BENEFICIARIA => BeneficiariaExiste(ben)
    /\ UnicoEnTaller(pid, tid, dni, ben)

\* the enrollment gate of ParticipanteCreateView.form_valid
InscripcionAbiertaMut(e) == e \in {"PROGRAMADO", "EN_CURSO", "FINALIZADO"}

InscripcionAbierta(e) == e \in {"PROGRAMADO", "EN_CURSO"}

\* ParticipanteCreateView: ParticipanteForm validation, then form_valid: the
\* enrollment gate reads the stored estado of the workshop; capacidad is not
\* looked at; the participant is saved as CONFIRMADO.
\* an empty dni field of a submission
SIN_DNI == 0

\* Participante.clean, run by the ModelForm on the instance: nombres,
\* apellidos and dni are demanded only when no beneficiaria is selected
ParticipanteClean(nombres, apellidos, dni, ben) ==
    ben = SIN_BENEFICIARIA => (nombres /\ apellidos /\ dni # SIN_DNI)

\* ParticipanteForm.clean: "Los campos personales son siempre obligatorios"
ParticipanteFormClean(nombres, apellidos, dni) ==
    nombres /\ apellidos /\ dni # SIN_DNI

\* ParticipanteCreateView; nombres and apellidos say whether the field was
\* filled in
ParticipanteCreateView(tid, pid, nombres, apellidos, dni, ben) ==
    /\ Existe(tid)
    /\ participantes[pid] = NoParticipante
    /\ IF ~(/\ ParticipanteFormClean(nombres, apellidos, dni)
            /\ ParticipanteClean(nombres, apellidos, dni, ben)
            /\ ParticipanteFormValido(pid, tid, dni, ben))
       THEN /\ participantes' = participantes
            /\ ultima' = Resp("ParticipanteCreateView", tid, FALSE, "NO_LEIDO")
       ELSE IF ~InscripcionAbierta(talleres[tid].estado)
       THEN /\ participantes' = participantes
            /\ ultima' = Resp("ParticipanteCreateView", tid, FALSE, talleres[tid].estado)
       ELSE /\ participantes' = [participantes EXCEPT ![pid] =
                   [taller |-> tid, beneficiaria |-> ben, dni |-> dni,
                    estado |-> "CONFIRMADO"]]
            /\ ultima' = Resp("ParticipanteCreateView", tid, TRUE, talleres[tid].estado)
    /\ UNCHANGED <<hoy, talleres, certificados, varsRegistros, cargados,
                   varsSocios, varsFinanzas, beneficiarias, usuarios>>

\* a submission of ParticipanteCreateView with nombres and apellidos filled in
ParticipanteCreate(tid, pid, dni, ben) ==
    ParticipanteCreateView(tid, pid, TRUE, TRUE, dni, ben)

\* ParticipanteUpdateView: ParticipanteForm without taller_id, so the form
\* carries taller, beneficiaria, dni and estado; a valid form is saved.
ParticipanteUpdate(pid, tid, dni, ben, est) ==
    /\ participantes[pid] # NoParticipante
    /\ IF ParticipanteFormValido(pid, tid, dni, ben)
       THEN /\ participantes' = [participantes EXCEPT ![pid] =
                   [taller |-> tid, beneficiaria |-> ben, dni |-> dni, estado |-> est]]
            /\ ultima' = Resp("ParticipanteUpdateView", tid, TRUE, est)
       ELSE /\ participantes' = participantes
            /\ ultima' = Resp("ParticipanteUpdateView", participantes[pid].taller,
                              FALSE, est)
    /\ UNCHANGED <<hoy, talleres, certificados, varsRegistros, cargados,
                   varsSocios, varsFinanzas, beneficiarias, usuarios>>

\* generar_certificado: taller.estado != 'FINALIZADO' refuses the certificate
TallerSinFinalizarMut(e) == e \notin {"FINALIZADO", "CANCELADO"}

TallerSinFinalizar(e) == e # "FINALIZADO"

\* generar_certificado: the participant gate, then the workshop gate on the
\* stored estado, then the existing EMITIDO certificate or a new one.
GenerarCertificado(pid) ==
    /\ participantes[pid] # NoParticipante
    /\ LET tid == participantes[pid].taller IN
       IF participantes[pid].estado # "CONFIRMADO"
       THEN /\ certificados' = certificados
            /\ ultima' = Resp("generar_certificado", tid, FALSE, "NO_LEIDO")
       ELSE IF TallerSinFinalizar(talleres[tid].estado)
       THEN /\ certificados' = certificados
            /\ ultima' = Resp("generar_certificado", tid, FALSE, talleres[tid].estado)
       ELSE /\ certificados' = [certificados EXCEPT ![pid] =
                   IF certificados[pid] > 0 THEN certificados[pid] ELSE 1]
            /\ ultima' = Resp("generar_certificado", tid, TRUE, talleres[tid].estado)
    /\ UNCHANGED <<hoy, talleres, participantes, varsRegistros, cargados,
                   varsSocios, varsFinanzas,
                   beneficiarias, usuarios>>

\* Taller.objects.filter(estado=e).count()
CuentaEstado(e) == Cardinality({id \in TallerIds : Existe(id) /\ talleres[id].estado = e})

\* reporte_talleres: talleres_activos and talleres_finalizados count the
\* stored estados.
ReporteTalleres ==
    /\ ultima' = Resp("reporte_talleres", 0, TRUE,
                      [talleres_activos |-> CuentaEstado("EN_CURSO"),
                       talleres_finalizados |-> CuentaEstado("FINALIZADO")])
    /\ UNCHANGED <<hoy, varsTalleres, varsRegistros, cargados,
                   varsSocios, varsFinanzas, beneficiarias, usuarios>>

(***************************************************************************)
(* Attendance.                                                             *)
(***************************************************************************)
\* what a form submits for a row: Asistencia.estado (two of ASISTENCIA_CHOICES),
\* observaciones and registrado_por
Envios ==
    {[estado |-> "PRESENTE", observaciones |-> "", registrado_por |-> "ana"],
     [estado |-> "AUSENTE", observaciones |-> "enferma", registrado_por |-> "eva"]}

\* the rows of a table that are stored
Filas(tabla) == {a \in DOMAIN tabla : tabla[a].estado # "NINGUNO"}

\* Asistencia.objects.filter(participante=pid, fecha=fecha)
AsistenciasDe(tabla, pid, fecha) ==
    {a \in Filas(tabla) : tabla[a].participante = pid /\ tabla[a].fecha = fecha}

\* the primary key of the next INSERT
Libre(tabla) == CHOOSE a \in DOMAIN tabla :
    /\ a \notin Filas(tabla)
    /\ \A b \in DOMAIN tabla : b \notin Filas(tabla) => a <= b

FilaAsistencia(pid, fecha, envio) ==
    [participante |-> pid, fecha |-> fecha, estado |-> envio.estado,
     observaciones |-> envio.observaciones, registrado_por |-> envio.registrado_por]

\* Asistencia.objects.update_or_create(participante=, fecha=, defaults=...)
siempre_create(tabla, pid, fecha, envio) ==
    [tabla EXCEPT ![Libre(tabla)] = FilaAsistencia(pid, fecha, envio)]

update_or_create(tabla, pid, fecha, envio) ==
    LET S == AsistenciasDe(tabla, pid, fecha) IN
    IF S = {} THEN [tabla EXCEPT ![Libre(tabla)] = FilaAsistencia(pid, fecha, envio)]
    ELSE [a \in DOMAIN tabla |->
             IF a \in S THEN FilaAsistencia(pid, fecha, envio) ELSE tabla[a]]

\* Participante.objects.filter(taller=tid, estado='CONFIRMADO')
Confirmados(tid) ==
    {p \in ParticipanteIds :
        /\ participantes[p] # NoParticipante
        /\ participantes[p].taller = tid
        /\ participantes[p].estado = "CONFIRMADO"}

\* the loop of asistencia_masiva over the participants ps
RECURSIVE GuardarAsistencias(_, _, _, _)
GuardarAsistencias(tabla, ps, fecha, envio) ==
    IF ps = {} THEN tabla
    ELSE LET p == CHOOSE q \in ps : \A r \in ps : q <= r IN
         GuardarAsistencias(update_or_create(tabla, p, fecha, envio),
                            ps \ {p}, fecha, envio)

\* the number of calls of update_or_create that answer created=True
Creadas(tabla, ps, fecha) ==
    Cardinality({p \in ps : AsistenciasDe(tabla, p, fecha) = {}})

\* the rows the table still has room for
Cabe(tabla, ps, fecha) ==
    Creadas(tabla, ps, fecha) <= Cardinality(DOMAIN tabla \ Filas(tabla))

\* asistencia_masiva (POST): AsistenciaMasivaForm has no rule about fecha, and
\* every confirmed participant of the workshop gets the submitted mark.
AsistenciaMasiva(tid, fecha, envio) ==
    /\ Existe(tid)
    /\ Cabe(asistencias, Confirmados(tid), fecha)
    /\ asistencias' = GuardarAsistencias(asistencias, Confirmados(tid), fecha, envio)
    /\ ultima' = Resp("asistencia_masiva", tid, TRUE,
                      [fecha |-> fecha, creadas |-> Creadas(asistencias, Confirmados(tid), fecha)])
    /\ UNCHANGED <<hoy, varsTalleres, evaluaciones, materiales, acompanantes, cargados,
                   varsSocios, varsFinanzas, beneficiarias, usuarios>>

\* AsistenciaForm.clean: the date lies inside the period of the participant's
\* workshop
FechaEnPeriodo(pid, fecha) ==
    LET taller == talleres[participantes[pid].taller] IN
    ~(fecha < taller.fecha_inicio \/ fecha > taller.fecha_fin)

\* AsistenciaForm: participante is a choice of the queryset (with taller_id:
\* the confirmed participants of that workshop), clean() checks the period,
\* validate_unique checks unique_together (participante, fecha) but for the
\* row being edited.
AsistenciaFormValido(aid, elegibles, pid, fecha) ==
    /\ pid \in elegibles
    /\ FechaEnPeriodo(pid, fecha)
    /\ AsistenciasDe(asistencias, pid, fecha) \subseteq {aid}

\* AsistenciaCreateView
AsistenciaCreate(tid, pid, fecha, envio) ==
    /\ Existe(tid)
    /\ Filas(asistencias) # AsistenciaIds
    /\ IF AsistenciaFormValido(0, Confirmados(tid), pid, fecha)
       THEN /\ asistencias' = [asistencias EXCEPT ![Libre(asistencias)] =
                                  FilaAsistencia(pid, fecha, envio)]
            /\ ultima' = Resp("AsistenciaCreateView", tid, TRUE, fecha)
       ELSE /\ asistencias' = asistencias
            /\ ultima' = Resp("AsistenciaCreateView", tid, FALSE, fecha)
    /\ UNCHANGED <<hoy, varsTalleres, evaluaciones, materiales, acompanantes, cargados,
                   varsSocios, varsFinanzas, beneficiarias, usuarios>>

\* AsistenciaUpdateView: AsistenciaForm without taller_id, so participante is
\* a choice among all participants.
AsistenciaUpdate(aid, pid, fecha, envio) ==
    /\ aid \in Filas(asistencias)
    /\ IF AsistenciaFormValido(aid, {p \in ParticipanteIds : participantes[p] # NoParticipante},
                               pid, fecha)
       THEN /\ asistencias' = [asistencias EXCEPT ![aid] = FilaAsistencia(pid, fecha, envio)]
            /\ ultima' = Resp("AsistenciaUpdateView", aid, TRUE, fecha)
       ELSE /\ asistencias' = asistencias
            /\ ultima' = Resp("AsistenciaUpdateView", aid, FALSE, fecha)
    /\ UNCHANGED <<hoy, varsTalleres, evaluaciones, materiales, acompanantes, cargados,
                   varsSocios, varsFinanzas, beneficiarias, usuarios>>

\* AsistenciaDeleteView
AsistenciaDelete(aid) ==
    /\ aid \in Filas(asistencias)
    /\ asistencias' = [asistencias EXCEPT ![aid] = NoAsistencia]
    /\ ultima' = Resp("AsistenciaDeleteView", aid, TRUE, "-")
    /\ UNCHANGED <<hoy, varsTalleres, evaluaciones, materiales, acompanantes, cargados,
                   varsSocios, varsFinanzas, beneficiarias, usuarios>>

(***************************************************************************)
(* Finanzas: members and their dues.                                       *)
(***************************************************************************)
NumSocios == 1
NumPagos == 2
MaxFecha == 1
\* the 40 days of Socio.esta_al_dia
PLAZO == 40

SocioIds == 1..NumSocios
PagoIds == 1..NumPagos
\* dates of registrations and payments
FechasSocio == 0..MaxFecha
\* values of today: the days of the dates themselves (a date may lie in the
\* future) and the days around the end of the 40-day period of each of them
DiasSocio == FechasSocio \cup ((PLAZO - 1)..(PLAZO + MaxFecha + 1))

NoSocio == [estado |-> "NINGUNO"]
NoPago == [socio |-> 0]
\* get_ultima_cuota returns None when the member has no payment
SIN_PAGO == -1

\* self.pagos: the PagoSocio rows of the member (related_name='pagos')
PagosDe(s) == {p \in PagoIds : pagos[p] # NoPago /\ pagos[p].socio = s}

\* Socio.get_ultima_cuota: self.pagos.order_by('-fecha').first(), its fecha or None
get_ultima_cuota(s) ==
    IF PagosDe(s) = {} THEN SIN_PAGO
    ELSE LET ultimo_pago == CHOOSE p \in PagosDe(s) :
                                \A q \in PagosDe(s) : pagos[q].fecha <= pagos[p].fecha
         IN pagos[ultimo_pago].fecha

esta_al_dia_registro(s) ==
    LET ultimo_pago == get_ultima_cuota(s) IN
    IF ultimo_pago # SIN_PAGO
    THEN (hoy - ultimo_pago) <= PLAZO /\ (hoy - socios[s].fecha_registro) <= PLAZO
    ELSE (hoy - socios[s].fecha_registro) <= PLAZO

\* Socio.esta_al_dia
esta_al_dia(s) ==
    LET ultimo_pago == get_ultima_cuota(s) IN
    IF ultimo_pago # SIN_PAGO
    THEN (hoy - ultimo_pago) <= PLAZO
    ELSE (hoy - socios[s].fecha_registro) <= PLAZO

\* SocioDetailView.get_context_data: context['esta_al_dia'] = self.object.esta_al_dia()
SocioDetail(s) ==
    /\ socios[s] # NoSocio
    /\ ultima' = Resp("SocioDetailView", s, TRUE, esta_al_dia(s))
    /\ UNCHANGED <<hoy, varsTalleres, varsRegistros, cargados,
                   varsSocios, varsFinanzas, beneficiarias, usuarios>>

(***************************************************************************)
(* Finanzas: categories and the transactions that refer to them.           *)
(***************************************************************************)
NumCategorias == 2
NumTransacciones == 2

CategoriaIds == 1..NumCategorias
TransaccionIds == 1..NumTransacciones

NoCategoria == [tipo |-> "NINGUNO"]
NoTransaccion == [tipo |-> "NINGUNO"]
\* Categoria.TIPO_CHOICES
TIPO_CHOICES == {"INGRESO", "EGRESO"}

\* on_delete=models.PROTECT of Ingreso.categoria and Egreso.categoria: deleting
\* category c raises ProtectedError while a transaction refers to it.
Protegida(c) ==
    \E t \in TransaccionIds :
        transacciones[t] # NoTransaccion /\ transacciones[t].categoria = c

\* CategoriaCreateView
CategoriaCreate(c, tipo, activo) ==
    /\ categorias[c] = NoCategoria
    /\ categorias' = [categorias EXCEPT ![c] = [tipo |-> tipo, activo |-> activo]]
    /\ ultima' = Resp("CategoriaCreateView", c, TRUE, "-")
    /\ UNCHANGED <<hoy, varsTalleres, varsRegistros, cargados,
                   varsSocios, transacciones, beneficiarias, usuarios>>

\* CategoriaUpdateView
CategoriaUpdate(c, tipo, activo) ==
    /\ categorias[c] # NoCategoria
    /\ categorias' = [categorias EXCEPT ![c] = [tipo |-> tipo, activo |-> activo]]
    /\ ultima' = Resp("CategoriaUpdateView", c, TRUE, "-")
    /\ UNCHANGED <<hoy, varsTalleres, varsRegistros, cargados,
                   varsSocios, transacciones, beneficiarias, usuarios>>

\* CategoriaDeleteView, the POST of the confirmation page.  The view puts its
\* try/except in delete(); the view class sets no post() and no form_valid().
\* Whether the POST runs delete() is the framework's choice (DeleteView.post
\* called delete() before Django 4.0 and calls form_valid() since), and the
\* sources do not pin the framework version: por_delete is either.  When the
\* override is not on the path, the ProtectedError of a referenced category
\* leaves the view uncaught.
CategoriaDelete(c, por_delete) ==
    /\ categorias[c] # NoCategoria
    /\ IF Protegida(c)
       THEN /\ categorias' = categorias
            /\ ultima' = IF por_delete
                         THEN Resp("CategoriaDeleteView", c, FALSE,
                                   [mensaje |-> "error", respuesta |-> "categoria_list"])
                         ELSE Resp("CategoriaDeleteView", c, FALSE,
                                   [mensaje |-> "-", respuesta |-> "ProtectedError"])
       ELSE /\ categorias' = [categorias EXCEPT ![c] = NoCategoria]
            /\ ultima' = Resp("CategoriaDeleteView", c, TRUE,
                              [mensaje |-> IF por_delete THEN "success" ELSE "-",
                               respuesta |-> "categoria_list"])
    /\ UNCHANGED <<hoy, varsTalleres, varsRegistros, cargados,
                   varsSocios, transacciones, beneficiarias, usuarios>>

\* IngresoCreateView and EgresoCreateView: the form offers the active
\* categories of the transaction's own tipo.
TransaccionCreate(t, tipo, c) ==
    /\ transacciones[t] = NoTransaccion
    /\ categorias[c] # NoCategoria
    /\ categorias[c].tipo = tipo
    /\ categorias[c].activo
    /\ transacciones' = [transacciones EXCEPT ![t] = [tipo |-> tipo, categoria |-> c]]
    /\ ultima' = Resp(IF tipo = "INGRESO" THEN "IngresoCreateView" ELSE "EgresoCreateView",
                      t, TRUE, "-")
    /\ UNCHANGED <<hoy, varsTalleres, varsRegistros, cargados,
                   varsSocios, categorias, beneficiarias, usuarios>>

\* IngresoDeleteView and EgresoDeleteView
TransaccionDelete(t) ==
    /\ transacciones[t] # NoTransaccion
    /\ transacciones' = [transacciones EXCEPT ![t] = NoTransaccion]
    /\ ultima' = Resp(IF transacciones[t].tipo = "INGRESO"
                          THEN "IngresoDeleteView" ELSE "EgresoDeleteView",
                      t, TRUE, "-")
    /\ UNCHANGED <<hoy, varsTalleres, varsRegistros, cargados,
                   varsSocios, categorias, beneficiarias, usuarios>>

(***************************************************************************)
(* Usuarios: roles, per-module permissions, and the guard of each view.    *)
(* In the responses of the HTTP views below, `id` is the requesting user.  *)
(***************************************************************************)
NumUsuarios == 2

UsuarioIds == 1..NumUsuarios
\* request.user of a request without a session: AnonymousUser
ANONIMO == 0
Solicitantes == {ANONIMO} \cup UsuarioIds

NoUsuario == [role |-> "NINGUNO"]
\* Usuario.ROLE_CHOICES
ROLE_CHOICES == {"administrador", "empleado"}
Permisos == [permiso_beneficiarias : BOOLEAN, permiso_finanzas : BOOLEAN,
             permiso_talleres : BOOLEAN, permiso_reportes : BOOLEAN]
TodosLosPermisos == [permiso_beneficiarias |-> TRUE, permiso_finanzas |-> TRUE,
                     permiso_talleres |-> TRUE, permiso_reportes |-> TRUE]

Usuario(role, p) ==
    [role |-> role,
     permiso_beneficiarias |-> p.permiso_beneficiarias,
     permiso_finanzas |-> p.permiso_finanzas,
     permiso_talleres |-> p.permiso_talleres,
     permiso_reportes |-> p.permiso_reportes]

\* a request carries ANONIMO or a user of the table
Sesion(u) == IF u = ANONIMO THEN TRUE ELSE usuarios[u] # NoUsuario

is_authenticated(u) == u # ANONIMO
is_admin(u) == usuarios[u].role = "administrador"
can_access_beneficiarias(u) == is_admin(u) \/ usuarios[u].permiso_beneficiarias
can_access_finanzas(u) == is_admin(u) \/ usuarios[u].permiso_finanzas
can_access_talleres(u) == is_admin(u) \/ usuarios[u].permiso_talleres
can_access_reportes(u) == is_admin(u) \/ usuarios[u].permiso_reportes

\* the decorators: TRUE when the wrapped view function is called
login_required(u) == is_authenticated(u)
permiso_beneficiarias_required(u) == is_authenticated(u) /\ can_access_beneficiarias(u)
permiso_finanzas_required(u) == is_authenticated(u) /\ can_access_finanzas(u)
permiso_talleres_required(u) == is_authenticated(u) /\ can_access_talleres(u)
permiso_reportes_required(u) == is_authenticated(u) /\ can_access_reportes(u)

\* the mixins: TRUE when dispatch reaches the view's handler
LoginRequiredMixin(u) == is_authenticated(u)
AdminRequiredMixin(u) == is_authenticated(u) /\ usuarios[u].role = "administrador"
FinanzasRequiredMixin(u) == is_authenticated(u) /\ can_access_finanzas(u)
TalleresRequiredMixin(u) == is_authenticated(u) /\ can_access_talleres(u)

\* where a refused request is sent
Redirige(u) == IF is_authenticated(u) THEN "dashboard" ELSE "login"

\* The views of the four modules, by the guard each is declared with.
VistasBeneficiarias ==
    {"BeneficiariaListView", "BeneficiariaDetailView", "BeneficiariaCreateView",
     "BeneficiariaUpdateView", "BeneficiariaDeleteView", "SeguimientoCreateView"}
ApisBeneficiarias == {"buscar_beneficiarias_api", "detalle_beneficiaria_api"}
VistasFinanzas == {"CategoriaListView", "CategoriaDeleteView", "SocioDetailView"}
FuncionesFinanzas == {"generar_informe_pdf"}
VistasTalleres == {"TallerListView", "TallerUpdateView", "ParticipanteCreateView"}
FuncionesTalleres == {"buscar_beneficiarias", "generar_certificado"}
VistasReportes ==
    {"reportes_index", "reporte_balance_financiero", "reporte_beneficiarias",
     "reporte_talleres"}
Vistas == VistasBeneficiarias \cup ApisBeneficiarias \cup VistasFinanzas
            \cup FuncionesFinanzas \cup VistasTalleres \cup FuncionesTalleres
            \cup VistasReportes

\* the module (Django app) a view belongs to
Modulo(v) ==
    IF v \in VistasBeneficiarias \cup ApisBeneficiarias THEN "beneficiarias"
    ELSE IF v \in VistasFinanzas \cup FuncionesFinanzas THEN "finanzas"
    ELSE IF v \in VistasTalleres \cup FuncionesTalleres THEN "talleres"
    ELSE "reportes"

\* The view's own code runs for a request of u.
Ejecuta(v, u) ==
    IF v \in VistasBeneficiarias THEN LoginRequiredMixin(u)
    ELSE IF v \in ApisBeneficiarias THEN TRUE
    ELSE IF v \in VistasFinanzas THEN FinanzasRequiredMixin(u)
    ELSE IF v \in FuncionesFinanzas THEN permiso_finanzas_required(u)
    ELSE IF v \in VistasTalleres THEN TalleresRequiredMixin(u)
    ELSE IF v \in FuncionesTalleres THEN permiso_talleres_required(u)
    ELSE IF v = "reportes_index"
        THEN login_required(u) /\ permiso_reportes_required(u)
    ELSE IF v = "reporte_balance_financiero"
        THEN login_required(u) /\ permiso_reportes_required(u)
             /\ permiso_finanzas_required(u)
    ELSE IF v = "reporte_beneficiarias"
        THEN login_required(u) /\ permiso_reportes_required(u)
             /\ permiso_beneficiarias_required(u)
    ELSE login_required(u) /\ permiso_reportes_required(u)
         /\ permiso_talleres_required(u)

\* A request of u for view v: the guard decides whether the view runs.
Peticion(u, v) ==
    /\ Sesion(u)
    /\ ultima' = Resp(v, u, Ejecuta(v, u), Modulo(v))
    /\ UNCHANGED <<hoy, varsTalleres, varsRegistros, cargados,
                   varsSocios, varsFinanzas, beneficiarias, usuarios>>

\* RegistroUsuarioForm.clean and the form_valid of UsuarioCreateView and
\* UsuarioUpdateView: an administrador is saved with every permission.
UsuarioGuardadoMut(role, p) == Usuario(role, p)

UsuarioGuardado(role, p) ==
    IF role = "administrador" THEN Usuario(role, TodosLosPermisos) ELSE Usuario(role, p)

\* UsuarioCreateView
UsuarioCreate(u, nuevo, role, p) ==
    /\ Sesion(u)
    /\ usuarios[nuevo] = NoUsuario
    /\ IF AdminRequiredMixin(u)
       THEN /\ usuarios' = [usuarios EXCEPT ![nuevo] = UsuarioGuardado(role, p)]
            /\ ultima' = Resp("UsuarioCreateView", u, TRUE, "usuarios")
       ELSE /\ usuarios' = usuarios
            /\ ultima' = Resp("UsuarioCreateView", u, FALSE, "usuarios")
    /\ UNCHANGED <<hoy, varsTalleres, varsRegistros, cargados,
                   varsSocios, varsFinanzas, beneficiarias>>

\* UsuarioUpdateView
UsuarioUpdate(u, otro, role, p) ==
    /\ Sesion(u)
    /\ usuarios[otro] # NoUsuario
    /\ IF AdminRequiredMixin(u)
       THEN /\ usuarios' = [usuarios EXCEPT ![otro] = UsuarioGuardado(role, p)]
            /\ ultima' = Resp("UsuarioUpdateView", u, TRUE, "usuarios")
       ELSE /\ usuarios' = usuarios
            /\ ultima' = Resp("UsuarioUpdateView", u, FALSE, "usuarios")
    /\ UNCHANGED <<hoy, varsTalleres, varsRegistros, cargados,
                   varsSocios, varsFinanzas, beneficiarias>>

\* UsuarioDeleteView: get_queryset excludes the administrators.
UsuarioDelete(u, otro) ==
    /\ Sesion(u)
    /\ usuarios[otro] # NoUsuario
    /\ IF AdminRequiredMixin(u) /\ usuarios[otro].role # "administrador"
       THEN /\ usuarios' = [usuarios EXCEPT ![otro] = NoUsuario]
            /\ ultima' = Resp("UsuarioDeleteView", u, TRUE, "usuarios")
       ELSE /\ usuarios' = usuarios
            /\ ultima' = Resp("UsuarioDeleteView", u, FALSE, "usuarios")
    /\ UNCHANGED <<hoy, varsTalleres, varsRegistros, cargados,
                   varsSocios, varsFinanzas, beneficiarias>>

(***************************************************************************)
(* Beneficiarias: the table and the two JSON search endpoints.             *)
(* Text is a sequence of one-character strings.                            *)
(***************************************************************************)
\* the [:10] of each search endpoint
LIMITE_API == 10
LIMITE_TALLERES == 10
\* one row more than a search returns, so that more rows can match than fit
MaxBeneficiarias == LIMITE_API + 1

\* the records a form can submit
PersonaAna == [nombres |-> <<"A", "n", "a">>,
               apellidos |-> <<"R", "u", "i", "z">>,
               documento_identidad |-> <<"1", "2", "3", "4">>]
PersonaEva == [nombres |-> <<"E", "v", "a">>,
               apellidos |-> <<"L", "u", "n", "a">>,
               documento_identidad |-> <<>>]
Personas == {PersonaAna, PersonaEva}

\* the values of the `term` parameter of a search request
Terminos ==
    {<< >>, <<"a", "n">>, <<"A", "N", "A">>, <<"2", "3", "4">>}

\* the primary keys a detail request asks for: the first row and a missing one
Pks == {1, MaxBeneficiarias + 1}

\* lower case of one character
Minus(c) ==
    CASE c = "A" -> "a" [] c = "E" -> "e" [] c = "L" -> "l"
      [] c = "N" -> "n" [] c = "R" -> "r" [] OTHER -> c

Lower(s) == [i \in 1..Len(s) |-> Minus(s[i])]

\* t occurs in s as a substring
Contiene(s, t) ==
    \E i \in 0..(Len(s) - Len(t)) : SubSeq(s, i + 1, i + Len(t)) = t

\* the __icontains lookup
icontains(s, t) == Contiene(Lower(s), Lower(t))

\* Q(nombres__icontains) | Q(apellidos__icontains) | Q(documento_identidad__icontains)
Coincide(b, term) ==
    \/ icontains(b.nombres, term)
    \/ icontains(b.apellidos, term)
    \/ icontains(b.documento_identidad, term)

\* Beneficiaria.objects.filter(...): the ids of the matching rows, in id order
Filtrar(term) ==
    LET Ids == [i \in 1..Len(beneficiarias) |-> i]
        Test(i) == beneficiarias[i] # NoBeneficiaria /\ Coincide(beneficiarias[i], term)
    IN SelectSeq(Ids, Test)

\* queryset[:n]
Primeros(s, n) == SubSeq(s, 1, IF Len(s) < n THEN Len(s) ELSE n)

buscar_sin_limite(term) ==
    IF Len(term) < 3 THEN << >> ELSE Filtrar(term)

\* beneficiarias.views.buscar_beneficiarias_api: the ids of the rows in the JSON list
buscar_beneficiarias_api(term) ==
    IF Len(term) < 3 THEN << >> ELSE Primeros(Filtrar(term), LIMITE_API)

\* talleres.views.buscar_beneficiarias: the ids of the rows in the JSON list
buscar_beneficiarias(term) ==
    IF Len(term) < 3 THEN << >> ELSE Primeros(Filtrar(term), LIMITE_TALLERES)

\* BeneficiariaCreateView (LoginRequiredMixin)
BeneficiariaCreate(u, b) ==
    /\ Sesion(u)
    /\ Len(beneficiarias) < MaxBeneficiarias
    /\ IF LoginRequiredMixin(u)
       THEN /\ beneficiarias' = Append(beneficiarias, b)
            /\ ultima' = Resp("BeneficiariaCreateView", u, TRUE, "beneficiaria_list")
       ELSE /\ beneficiarias' = beneficiarias
            /\ ultima' = Resp("BeneficiariaCreateView", u, FALSE, "login")
    /\ UNCHANGED <<hoy, varsTalleres, varsRegistros, cargados,
                   varsSocios, varsFinanzas, usuarios>>

\* beneficiarias/urls.py api/buscar/?term=...  (the view has no decorator)
BuscarBeneficiariasApi(u, term) ==
    /\ Sesion(u)
    /\ ultima' = Resp("buscar_beneficiarias_api", u, TRUE,
                      [term |-> term, resultado |-> buscar_beneficiarias_api(term)])
    /\ UNCHANGED <<hoy, varsTalleres, varsRegistros, cargados,
                   varsSocios, varsFinanzas, beneficiarias, usuarios>>

\* talleres/urls.py buscar-beneficiarias/?term=...  (@permiso_talleres_required)
BuscarBeneficiarias(u, term) ==
    /\ Sesion(u)
    /\ ultima' = IF permiso_talleres_required(u)
                 THEN Resp("buscar_beneficiarias", u, TRUE,
                           [term |-> term, resultado |-> buscar_beneficiarias(term)])
                 ELSE Resp("buscar_beneficiarias", u, FALSE, Redirige(u))
    /\ UNCHANGED <<hoy, varsTalleres, varsRegistros, cargados,
                   varsSocios, varsFinanzas, beneficiarias, usuarios>>

\* beneficiarias/urls.py api/detalle/<pk>/  (the view has no decorator)
DetalleBeneficiariaApi(u, pk) ==
    /\ Sesion(u)
    /\ ultima' = IF BeneficiariaExiste(pk)
                 THEN Resp("detalle_beneficiaria_api", u, TRUE,
                           [pk |-> pk, nombres |-> beneficiarias[pk].nombres])
                 ELSE Resp("detalle_beneficiaria_api", u, FALSE, "404")
    /\ UNCHANGED <<hoy, varsTalleres, varsRegistros, cargados,
                   varsSocios, varsFinanzas, beneficiarias, usuarios>>

\* BeneficiariaDeleteView (LoginRequiredMixin): on_delete=SET_NULL clears
\* Participante.beneficiaria, on_delete=CASCADE takes the companions (Hijo and
\* SeguimientoCaso carry the same rule as Acompanante).
BeneficiariaDelete(u, b) ==
    /\ Sesion(u)
    /\ BeneficiariaExiste(b)
    /\ IF LoginRequiredMixin(u)
       THEN /\ beneficiarias' = [beneficiarias EXCEPT ![b] = NoBeneficiaria]
            /\ participantes' = [p \in ParticipanteIds |->
                   IF participantes[p] # NoParticipante /\ participantes[p].beneficiaria = b
                   THEN [participantes[p] EXCEPT !.beneficiaria = SIN_BENEFICIARIA]
                   ELSE participantes[p]]
            /\ acompanantes' = [a \in AcompananteIds |->
                   IF acompanantes[a].beneficiaria = b THEN NoAcompanante
                   ELSE acompanantes[a]]
            /\ ultima' = Resp("BeneficiariaDeleteView", u, TRUE, "beneficiaria_list")
       ELSE /\ UNCHANGED <<beneficiarias, participantes, acompanantes>>
            /\ ultima' = Resp("BeneficiariaDeleteView", u, FALSE, "login")
    /\ UNCHANGED <<hoy, talleres, certificados, asistencias, evaluaciones, materiales,
                   cargados, varsSocios, varsFinanzas, usuarios>>

\* AcompananteCreateView (LoginRequiredMixin): form_valid takes beneficiaria_id
\* from the URL; the foreign key refuses an id that has no row.
AcompananteCreate(u, a, b) ==
    /\ Sesion(u)
    /\ acompanantes[a] = NoAcompanante
    /\ IF LoginRequiredMixin(u) /\ BeneficiariaExiste(b)
       THEN /\ acompanantes' = [acompanantes EXCEPT ![a] = [beneficiaria |-> b]]
            /\ ultima' = Resp("AcompananteCreateView", u, TRUE, "beneficiaria_detail")
       ELSE /\ acompanantes' = acompanantes
            /\ ultima' = Resp("AcompananteCreateView", u, FALSE,
                              IF LoginRequiredMixin(u) THEN "IntegrityError" ELSE "login")
    /\ UNCHANGED <<hoy, varsTalleres, asistencias, evaluaciones, materiales, cargados,
                   varsSocios, varsFinanzas, beneficiarias, usuarios>>

(***************************************************************************)
(* Evaluations and materials of a workshop.                                *)
(***************************************************************************)
\* EvaluacionCreateView: EvaluacionForm offers the confirmed participants of
\* the workshop.
EvaluacionCreate(tid, e, pid) ==
    /\ Existe(tid)
    /\ evaluaciones[e] = NoEvaluacion
    /\ IF pid \in Confirmados(tid)
       THEN /\ evaluaciones' = [evaluaciones EXCEPT ![e] = [participante |-> pid]]
            /\ ultima' = Resp("EvaluacionCreateView", tid, TRUE, "-")
       ELSE /\ evaluaciones' = evaluaciones
            /\ ultima' = Resp("EvaluacionCreateView", tid, FALSE, "participante")
    /\ UNCHANGED <<hoy, varsTalleres, asistencias, materiales, acompanantes, cargados,
                   varsSocios, varsFinanzas, beneficiarias, usuarios>>

\* MaterialCreateView: MaterialForm offers the workshop of the URL, and
\* form_valid assigns it.
MaterialCreate(tid, m) ==
    /\ Existe(tid)
    /\ materiales[m] = NoMaterial
    /\ materiales' = [materiales EXCEPT ![m] = [taller |-> tid]]
    /\ ultima' = Resp("MaterialCreateView", tid, TRUE, "-")
    /\ UNCHANGED <<hoy, varsTalleres, asistencias, evaluaciones, acompanantes, cargados,
                   varsSocios, varsFinanzas, beneficiarias, usuarios>>

(***************************************************************************)
(* Specifications.                                                         *)
(***************************************************************************)
\* the tables of a new database
InitTalleres ==
    /\ talleres = [id \in TallerIds |-> NoTaller]
    /\ participantes = [p \in ParticipanteIds |-> NoParticipante]
    /\ certificados = [p \in ParticipanteIds |-> 0]
    /\ asistencias = [a \in AsistenciaIds |-> NoAsistencia]
    /\ evaluaciones = [e \in EvaluacionIds |-> NoEvaluacion]
    /\ materiales = [m \in MaterialIds |-> NoMaterial]
    /\ acompanantes = [a \in AcompananteIds |-> NoAcompanante]
    /\ cargados = NoCargados

InitSocios ==
    /\ socios = [s \in SocioIds |-> NoSocio]
    /\ pagos = [p \in PagoIds |-> NoPago]

InitFinanzas ==
    /\ categorias = [c \in CategoriaIds |-> NoCategoria]
    /\ transacciones = [t \in TransaccionIds |-> NoTransaccion]

\* create_superuser.py: the first user is an administrador with every permission
InitUsuarios ==
    usuarios = [u \in UsuarioIds |->
                  IF u = 1 THEN Usuario("administrador", TodosLosPermisos) ELSE NoUsuario]

Init ==
    /\ hoy = 0
    /\ InitTalleres
    /\ InitSocios
    /\ InitFinanzas
    /\ InitUsuarios
    /\ beneficiarias = << >>
    /\ ultima = Resp("Init", 0, TRUE, "-")

\* The workshop status machine: writes, page loads and recalculation jobs.
Next ==
    \/ PasaDia
    \/ \E id \in TallerIds, est \in ESTADO_CHOICES, fi \in Fechas, ff \in Fechas :
          TallerCreate(id, est, fi, ff, CAPACIDAD_MINIMA)
    \/ \E id \in TallerIds, est \in ESTADO_CHOICES, fi \in Fechas, ff \in Fechas :
          TallerUpdate(id, est, fi, ff, CAPACIDAD_MINIMA)
    \/ \E id \in TallerIds : TallerDelete(id)
    \/ ListPage
    \/ \E id \in TallerIds : DetailPage(id)
    \/ ComandoActualizarEstados
    \/ ComandoActualizarEstadosTalleres
    \/ ScriptActualizarEstados

Spec == Init /\ [][Next]_vars

\* The status machine together with the views that read the stored estado.
NextLecturas ==
    \/ Next
    \/ \E tid \in TallerIds, pid \in ParticipanteIds :
          ParticipanteCreate(tid, pid, pid, SIN_BENEFICIARIA)
    \/ \E pid \in ParticipanteIds, est \in PARTICIPANTE_ESTADO_CHOICES :
          /\ participantes[pid] # NoParticipante
          /\ ParticipanteUpdate(pid, participantes[pid].taller, participantes[pid].dni,
                                participantes[pid].beneficiaria, est)
    \/ \E pid \in ParticipanteIds : GenerarCertificado(pid)
    \/ ReporteTalleres

SpecLecturas == Init /\ [][NextLecturas]_vars

\* Enrollment and certificates of one workshop that runs on day 1, is created
\* or edited as PROGRAMADO or CANCELADO, and is refreshed by the list page.
NextInscripcion ==
    \/ PasaDia
    \/ \E est \in {"PROGRAMADO", "CANCELADO"} : TallerCreate(1, est, 1, 1, CAPACIDAD_MINIMA)
    \/ \E est \in {"PROGRAMADO", "CANCELADO"} : TallerUpdate(1, est, 1, 1, CAPACIDAD_MINIMA)
    \/ ListPage
    \/ \E pid \in ParticipanteIds : ParticipanteCreate(1, pid, pid, SIN_BENEFICIARIA)
    \/ \E pid \in ParticipanteIds, est \in {"CONFIRMADO", "CANCELADO"} :
          /\ participantes[pid] # NoParticipante
          /\ ParticipanteUpdate(pid, participantes[pid].taller, participantes[pid].dni,
                                participantes[pid].beneficiaria, est)
    \/ \E pid \in ParticipanteIds : GenerarCertificado(pid)

SpecInscripcion == Init /\ [][NextInscripcion]_vars

\* Workshops that are created, edited and cancelled by requests that arrive
\* while a recalculation is between its read and its writes.
NextConcurrente ==
    \/ PasaDia
    \/ \E id \in TallerIds, fi \in Fechas, ff \in Fechas :
          TallerCreate(id, "PROGRAMADO", fi, ff, CAPACIDAD_MINIMA)
    \/ \E id \in TallerIds :
          /\ Existe(id)
          /\ TallerUpdate(id, "CANCELADO", talleres[id].fecha_inicio,
                          talleres[id].fecha_fin, talleres[id].capacidad)
    \/ \E op \in RecalculosConExclusion : RecalculoCarga(op)
    \/ \E id \in TallerIds : RecalculoGuarda(id)
    \/ RecalculoVacio

SpecConcurrente == Init /\ [][NextConcurrente]_vars

\* the DNI numbers and the beneficiaria a participant form submits
Dnis == {1, 2}
Refs == {SIN_BENEFICIARIA, 1}

\* Enrollment forms with every DNI and beneficiaria, in workshops that are
\* open, with one beneficiary that is registered and can be deleted.
NextUnicidad ==
    \/ \E id \in TallerIds : TallerCreate(id, "PROGRAMADO", 1, 1, CAPACIDAD_MINIMA)
    \/ Len(beneficiarias) < 1 /\ BeneficiariaCreate(1, PersonaAna)
    \/ BeneficiariaDelete(1, 1)
    \/ \E tid \in TallerIds, pid \in ParticipanteIds, dni \in Dnis, ben \in Refs :
          ParticipanteCreate(tid, pid, dni, ben)
    \/ \E pid \in ParticipanteIds, tid \in TallerIds, dni \in Dnis, ben \in Refs :
          ParticipanteUpdate(pid, tid, dni, ben, "CONFIRMADO")

SpecUnicidad == Init /\ [][NextUnicidad]_vars

\* Attendance of one workshop that runs on day 1: the bulk form, the single
\* form and deletions, for dates inside and outside the period.
NextMasiva ==
    \/ TallerCreate(1, "PROGRAMADO", 1, 1, CAPACIDAD_MINIMA)
    \/ \E pid \in ParticipanteIds : ParticipanteCreate(1, pid, pid, SIN_BENEFICIARIA)
    \/ \E fecha \in Fechas, envio \in Envios : AsistenciaMasiva(1, fecha, envio)
    \/ \E pid \in ParticipanteIds, fecha \in Fechas, envio \in Envios :
          AsistenciaCreate(1, pid, fecha, envio)
    \/ \E aid \in AsistenciaIds : AsistenciaDelete(aid)

SpecMasiva == Init /\ [][NextMasiva]_vars

\* The same with the edits of single rows.
NextAsistencia ==
    \/ NextMasiva
    \/ \E aid \in AsistenciaIds, pid \in ParticipanteIds, fecha \in Fechas, envio \in Envios :
          AsistenciaUpdate(aid, pid, fecha, envio)

SpecAsistencia == Init /\ [][NextAsistencia]_vars

\* One workshop with its dependent rows, a beneficiary with hers, and the
\* deletion of the workshop, of participants and of the beneficiary.
NextBorrado ==
    \/ hoy < 2 /\ PasaDia
    \/ ListPage
    \/ TallerCreate(1, "PROGRAMADO", 1, 1, CAPACIDAD_MINIMA)
    \/ Len(beneficiarias) < 1 /\ BeneficiariaCreate(1, PersonaAna)
    \/ AcompananteCreate(1, 1, 1)
    \/ \E pid \in ParticipanteIds, ben \in Refs : ParticipanteCreate(1, pid, pid, ben)
    \/ \E envio \in {e \in Envios : e.estado = "PRESENTE"} : AsistenciaMasiva(1, 1, envio)
    \/ \E pid \in ParticipanteIds : EvaluacionCreate(1, 1, pid)
    \/ MaterialCreate(1, 1)
    \/ \E pid \in ParticipanteIds : GenerarCertificado(pid)
    \/ TallerDelete(1)
    \/ \E pid \in ParticipanteIds : ParticipanteDelete(pid)
    \/ BeneficiariaDelete(1, 1)

SpecBorrado == Init /\ [][NextBorrado]_vars

\* Socio.esta_al_dia over every member, payment history and day.
InitSociosDados ==
    /\ hoy \in DiasSocio
    /\ socios \in [SocioIds -> [fecha_registro : FechasSocio]]
    /\ pagos \in [PagoIds -> {NoPago} \cup [socio : SocioIds, fecha : FechasSocio,
                                           comprobante : {<< >>}]]
    /\ InitTalleres
    /\ InitFinanzas
    /\ InitUsuarios
    /\ beneficiarias = << >>
    /\ ultima = Resp("Init", 0, TRUE, "-")

NextSocios == \E s \in SocioIds : SocioDetail(s)

SpecSocios == InitSociosDados /\ [][NextSocios]_vars

\* The beneficiary table and its JSON endpoints.
NextBusqueda ==
    \/ \E u \in Solicitantes, b \in Personas : BeneficiariaCreate(u, b)
    \/ \E u \in Solicitantes, term \in Terminos : BuscarBeneficiariasApi(u, term)
    \/ \E u \in Solicitantes, term \in Terminos : BuscarBeneficiarias(u, term)
    \/ \E u \in Solicitantes, pk \in Pks : DetalleBeneficiariaApi(u, pk)

SpecBusqueda == Init /\ [][NextBusqueda]_vars

\* The users and the guards of the views.
NextAcceso ==
    \/ \E u \in Solicitantes, v \in Vistas : Peticion(u, v)
    \/ \E u \in Solicitantes, nuevo \in UsuarioIds, role \in ROLE_CHOICES, p \in Permisos :
          UsuarioCreate(u, nuevo, role, p)
    \/ \E u \in Solicitantes, otro \in UsuarioIds, role \in ROLE_CHOICES, p \in Permisos :
          UsuarioUpdate(u, otro, role, p)
    \/ \E u \in Solicitantes, otro \in UsuarioIds : UsuarioDelete(u, otro)

SpecAcceso == Init /\ [][NextAcceso]_vars

\* The categories and the transactions of finanzas.
NextFinanzas ==
    \/ \E c \in CategoriaIds, tipo \in TIPO_CHOICES, activo \in BOOLEAN :
          CategoriaCreate(c, tipo, activo)
    \/ \E c \in CategoriaIds, tipo \in TIPO_CHOICES, activo \in BOOLEAN :
          CategoriaUpdate(c, tipo, activo)
    \/ \E c \in CategoriaIds, por_delete \in BOOLEAN : CategoriaDelete(c, por_delete)
    \/ \E t \in TransaccionIds, tipo \in TIPO_CHOICES, c \in CategoriaIds :
          TransaccionCreate(t, tipo, c)
    \/ \E t \in TransaccionIds : TransaccionDelete(t)

SpecFinanzas == Init /\ [][NextFinanzas]_vars

(***************************************************************************)
(* The workshop status.                                                    *)
(***************************************************************************)
\* The rule as the specification words it: PROGRAMADO iff today < start,
\* EN_CURSO iff start <= today <= end, FINALIZADO iff today > end.
EstadoSegunFechas(h, fi, ff) ==
    CHOOSE e \in {"PROGRAMADO", "EN_CURSO", "FINALIZADO", "INDEFINIDO"} :
        IF h < fi THEN e = "PROGRAMADO"
        ELSE IF fi <= h /\ h <= ff THEN e = "EN_CURSO"
        ELSE IF h > ff THEN e = "FINALIZADO"
        ELSE e = "INDEFINIDO"

Cancelado(id) == talleres[id] # NoTaller /\ talleres[id].estado = "CANCELADO"

\* A step of any of the five recalculation paths.
PasoRecalculo ==
    \/ ListPage
    \/ \E id \in TallerIds : DetailPage(id)
    \/ ComandoActualizarEstados
    \/ ComandoActualizarEstadosTalleres
    \/ ScriptActualizarEstados

\* C1: no run of a recalculation path (the two management commands, the
\* standalone script, the list-page and the detail-page refresh) changes the
\* stored estado of a workshop that is CANCELADO.
C1_RecalculoRespetaCancelado ==
    [][PasoRecalculo =>
         \A id \in TallerIds : Cancelado(id) => talleres'[id].estado = "CANCELADO"]_vars

\* The recalculation the last operation performed covered workshop id.
Recalculado(id) ==
    \/ ultima.op \in {"TallerListView", "actualizar_estados"}
    \/ ultima.op = "TallerDetailView" /\ ultima.id = id

\* C2: after a recalculation on date hoy (list page, detail page or the
\* actualizar_estados command) every workshop that is not CANCELADO and has
\* fecha_inicio <= fecha_fin is PROGRAMADO iff hoy < fecha_inicio, EN_CURSO iff
\* fecha_inicio <= hoy <= fecha_fin, FINALIZADO iff hoy > fecha_fin, and exactly
\* one of the three cases applies.
C2_EstadoTrasRecalculo ==
    \A id \in TallerIds :
        (/\ Existe(id)
         /\ talleres[id].estado # "CANCELADO"
         /\ talleres[id].fecha_inicio <= talleres[id].fecha_fin
         /\ Recalculado(id))
        => LET t == talleres[id]
               antes == hoy < t.fecha_inicio
               durante == t.fecha_inicio <= hoy /\ hoy <= t.fecha_fin
               despues == hoy > t.fecha_fin
           IN /\ (t.estado = "PROGRAMADO") <=> antes
              /\ (t.estado = "EN_CURSO") <=> durante
              /\ (t.estado = "FINALIZADO") <=> despues
              /\ Cardinality({c \in {"antes", "durante", "despues"} :
                     \/ c = "antes" /\ antes
                     \/ c = "durante" /\ durante
                     \/ c = "despues" /\ despues}) = 1

\* The command saved a status change and left a workshop running on a day
\* inside its period.
C2_Witness ==
    /\ ultima.op = "actualizar_estados"
    /\ ultima.dato > 0
    /\ \E id \in TallerIds :
          /\ Existe(id)
          /\ talleres[id].estado = "EN_CURSO"
          /\ talleres[id].fecha_inicio < hoy
          /\ hoy <= talleres[id].fecha_fin

\* C5: once the stored estado of a workshop is CANCELADO, no operation short
\* of deleting the workshop leaves it with another estado.
C5_CanceladoTerminal ==
    [][\A id \in TallerIds :
          (Cancelado(id) /\ talleres'[id] # NoTaller)
          => talleres'[id].estado = "CANCELADO"]_vars

Rango(e) ==
    CASE e = "PROGRAMADO" -> 1
      [] e = "EN_CURSO" -> 2
      [] e = "FINALIZADO" -> 3
      [] OTHER -> 0

\* C6: for a workshop that is not CANCELADO and whose dates are not edited
\* (fecha_inicio <= fecha_fin), as hoy never decreases, no step takes the
\* stored estado back: PROGRAMADO -> EN_CURSO -> FINALIZADO, skipping allowed.
C6_SoloAvanza ==
    [][\A id \in TallerIds :
          (/\ talleres[id] # NoTaller
           /\ talleres'[id] # NoTaller
           /\ talleres[id].estado # "CANCELADO"
           /\ talleres'[id].estado # "CANCELADO"
           /\ talleres'[id].fecha_inicio = talleres[id].fecha_inicio
           /\ talleres'[id].fecha_fin = talleres[id].fecha_fin
           /\ talleres[id].fecha_inicio <= talleres[id].fecha_fin
           /\ hoy' >= hoy)
          => Rango(talleres[id].estado) <= Rango(talleres'[id].estado)]_vars

\* The command moved a workshop to FINALIZADO after its last day.
C6_Witness ==
    /\ ultima.op = "actualizar_estados"
    /\ ultima.dato > 0
    /\ \E id \in TallerIds :
          /\ Existe(id)
          /\ talleres[id].estado = "FINALIZADO"
          /\ hoy > talleres[id].fecha_fin

\* Taller rows that are not CANCELADO and whose dates give status e today.
CuentaSegunFechas(e) ==
    Cardinality({id \in TallerIds :
        /\ Existe(id)
        /\ talleres[id].estado # "CANCELADO"
        /\ EstadoSegunFechas(hoy, talleres[id].fecha_inicio, talleres[id].fecha_fin) = e})

\* C7: whenever the enrollment gate, the certificate gate or the workshop
\* report reads the estado of a workshop that is not CANCELADO, the value read
\* is the status derived from hoy and the workshop's dates.
C7_LecturaDerivada ==
    /\ (/\ ultima.op \in {"ParticipanteCreateView", "generar_certificado"}
        /\ ultima.dato \notin {"CANCELADO", "NO_LEIDO"})
       => ultima.dato = EstadoSegunFechas(hoy, talleres[ultima.id].fecha_inicio,
                                          talleres[ultima.id].fecha_fin)
    /\ ultima.op = "reporte_talleres"
       => /\ ultima.dato.talleres_activos = CuentaSegunFechas("EN_CURSO")
          /\ ultima.dato.talleres_finalizados = CuentaSegunFechas("FINALIZADO")

(***************************************************************************)
(* The members' dues.                                                      *)
(***************************************************************************)
\* The rule as the specification words it, over the payments themselves.
AlDiaSegunPagos(s) ==
    LET P == PagosDe(s) IN
    \/ /\ P # {}
       /\ \E p \in P : /\ \A q \in P : pagos[q].fecha <= pagos[p].fecha
                       /\ hoy - pagos[p].fecha <= 40
    \/ /\ P = {}
       /\ hoy - socios[s].fecha_registro <= 40

RespuestaDeBusqueda ==
    /\ ultima.op \in {"buscar_beneficiarias", "buscar_beneficiarias_api"}
    /\ ultima.ok

\* C4: a JSON answer of either search endpoint is the empty list when the term
\* has fewer than 3 characters, and has at most 10 entries when it has 3 or
\* more, however many beneficiaries match.
C4_BusquedaAcotada ==
    RespuestaDeBusqueda =>
        /\ Len(ultima.dato.term) < 3 => ultima.dato.resultado = << >>
        /\ Len(ultima.dato.term) >= 3 => Len(ultima.dato.resultado) <= 10

\* a term of 3 characters that more than 10 rows match, answered with 10
C4_Witness ==
    /\ RespuestaDeBusqueda
    /\ Len(ultima.dato.term) >= 3
    /\ Len(Filtrar(ultima.dato.term)) > 10
    /\ Len(ultima.dato.resultado) = 10

(***************************************************************************)
(* Access control.                                                         *)
(***************************************************************************)
\* The last response carried beneficiary data, or the request changed it.
DatosServidos ==
    \/ RespuestaDeBusqueda /\ ultima.dato.resultado # << >>
    \/ ultima.op = "detalle_beneficiaria_api" /\ ultima.ok
    \/ ultima.op = "BeneficiariaCreateView" /\ ultima.ok

\* C8: no view returns or modifies application data for a request of a user
\* who is not logged in; in particular buscar_beneficiarias_api and
\* detalle_beneficiaria_api return no beneficiary data to such a request.
C8_SinSesionSinDatos ==
    (ultima.op # "Init" /\ ultima.id = ANONIMO) => ~DatosServidos

\* the permiso_M flag of a user record
PermisoDe(usr, m) ==
    CASE m = "beneficiarias" -> usr.permiso_beneficiarias
      [] m = "finanzas" -> usr.permiso_finanzas
      [] m = "talleres" -> usr.permiso_talleres
      [] m = "reportes" -> usr.permiso_reportes

\* C9: a view of module M runs for a user iff the user is authenticated and
\* is an administrador or has permiso_M.
C9_AccesoPorModulo ==
    ultima.op \in Vistas =>
        (ultima.ok <=>
            /\ ultima.id # ANONIMO
            /\ \/ usuarios[ultima.id].role = "administrador"
               \/ PermisoDe(usuarios[ultima.id], ultima.dato))

(***************************************************************************)
(* Deleting a category.                                                    *)
(***************************************************************************)
\* C10: when CategoriaDeleteView processes the deletion of a category that an
\* Ingreso or Egreso refers to, the category and the transactions stay as they
\* are and the answer is an error message with a redirect to the category
\* list, not an uncaught error.
C10_CategoriaProtegida ==
    [][\A c \in CategoriaIds :
         (ultima'.op = "CategoriaDeleteView" /\ ultima'.id = c /\ Protegida(c)) =>
             /\ categorias' = categorias
             /\ transacciones' = transacciones
             /\ ultima'.dato.mensaje = "error"
             /\ ultima'.dato.respuesta = "categoria_list"]_vars

(***************************************************************************)
(* The write paths of the workshop.                                        *)
(***************************************************************************)
\* C13: on TallerCreateView.form_valid and TallerUpdateView.form_valid a
\* submitted estado of CANCELADO is saved as CANCELADO whatever the dates, and
\* any other submitted estado is replaced by the status derived from today's
\* date and the submitted dates.
C13_EstadoGuardado ==
    [][(ultima'.op \in {"TallerCreate", "TallerUpdate"} /\ ultima'.ok)
       => LET id == ultima'.id
              fi == talleres'[id].fecha_inicio
              ff == talleres'[id].fecha_fin
          IN \A est \in ESTADO_CHOICES :
                (\/ TallerCreate(id, est, fi, ff, CAPACIDAD_MINIMA)
                 \/ TallerUpdate(id, est, fi, ff, CAPACIDAD_MINIMA))
                => talleres'[id].estado =
                      IF est = "CANCELADO" THEN "CANCELADO"
                      ELSE EstadoSegunFechas(hoy, fi, ff)]_vars

\* An edit was saved on the last day of the workshop's period, after its first
\* day, and the workshop is stored as running.
C13_Witness ==
    /\ ultima.op = "TallerUpdate"
    /\ ultima.ok
    /\ talleres[ultima.id].estado = "EN_CURSO"
    /\ talleres[ultima.id].fecha_inicio < hoy
    /\ hoy = talleres[ultima.id].fecha_fin

\* C14: TallerForm accepts a workshop only if fecha_fin is later than
\* fecha_inicio: whenever the form let a creation or an edit through, the
\* saved workshop ends after it starts.
C14_FinPosterior ==
    (ultima.op \in {"TallerCreate", "TallerUpdate"} /\ ultima.ok)
    => talleres[ultima.id].fecha_fin > talleres[ultima.id].fecha_inicio

(***************************************************************************)
(* Enrollment, capacity and certificates.                                  *)
(***************************************************************************)
\* C15: ParticipanteCreateView creates a participant only if the stored
\* estado of the workshop is PROGRAMADO or EN_CURSO; for a workshop that is
\* FINALIZADO or CANCELADO the submission is rejected with an error and the
\* participants are unchanged.
C15_InscripcionAbierta ==
    [][\A pid \in ParticipanteIds :
          ParticipanteCreate(1, pid, pid, SIN_BENEFICIARIA)
          => /\ participantes' # participantes
                => talleres[1].estado \in {"PROGRAMADO", "EN_CURSO"}
             /\ talleres[1].estado \in {"FINALIZADO", "CANCELADO"}
                => (~ultima'.ok /\ participantes' = participantes)]_vars

\* An enrollment was refused because the workshop is over, and the workshop
\* still has the participant who enrolled while it was open.
C15_Witness ==
    /\ ultima.op = "ParticipanteCreateView"
    /\ ~ultima.ok
    /\ ultima.dato = "FINALIZADO"
    /\ inscritos_count(ultima.id) = 1

\* C16: the number of participants of a workshop never exceeds its capacidad
\* and porcentaje_ocupacion() stays within 0..100.
C16_Capacidad ==
    \A tid \in TallerIds :
        Existe(tid)
        => /\ inscritos_count(tid) <= talleres[tid].capacidad
           /\ porcentaje_ocupacion(tid) \in 0..100

\* C20: generar_certificado issues or returns a certificate only when the
\* participant is CONFIRMADO and the workshop is FINALIZADO; otherwise it
\* answers with the error redirect and the certificates are unchanged.
C20_CertificadoSoloFinalizado ==
    [][\A pid \in ParticipanteIds :
          GenerarCertificado(pid)
          => LET permitido == /\ participantes[pid].estado = "CONFIRMADO"
                              /\ talleres[participantes[pid].taller].estado = "FINALIZADO"
             IN /\ ultima'.ok <=> permitido
                /\ permitido => certificados'[pid] > 0
                /\ ~permitido => certificados' = certificados]_vars

\* A certificate was issued for a confirmed participant of a finished workshop.
C20_Witness ==
    /\ ultima.op = "generar_certificado"
    /\ ultima.ok
    /\ talleres[ultima.id].estado = "FINALIZADO"
    /\ \E pid \in ParticipanteIds :
          /\ participantes[pid] # NoParticipante
          /\ participantes[pid].estado = "CONFIRMADO"
          /\ certificados[pid] = 1

\* Two participants of one workshop share a dni or a beneficiaria.
Duplicados(tabla) ==
    \E p, q \in ParticipanteIds :
        /\ p # q
        /\ tabla[p] # NoParticipante
        /\ tabla[q] # NoParticipante
        /\ tabla[p].taller = tabla[q].taller
        /\ \/ tabla[p].dni = tabla[q].dni
           \/ /\ tabla[p].beneficiaria # SIN_BENEFICIARIA
              /\ tabla[p].beneficiaria = tabla[q].beneficiaria

\* C17: no two participants of the same workshop have the same dni or refer
\* to the same beneficiaria, and a creation or an edit that would make such a
\* pair is rejected and leaves the participants unchanged.
C17_UnaVezPorTaller ==
    [][/\ ~Duplicados(participantes')
       /\ \A pid \in ParticipanteIds, tid \in TallerIds, dni \in Dnis, ben \in Refs :
             LET fila == [taller |-> tid, beneficiaria |-> ben, dni |-> dni,
                          estado |-> "CONFIRMADO"]
             IN ((\/ ParticipanteCreate(tid, pid, dni, ben)
                  \/ ParticipanteUpdate(pid, tid, dni, ben, "CONFIRMADO"))
                 /\ Duplicados([participantes EXCEPT ![pid] = fila]))
                => (~ultima'.ok /\ participantes' = participantes)]_vars

\* An edit was refused while the workshop has two participants, one of them
\* enrolled as the registered beneficiary.
C17_Witness ==
    /\ ultima.op = "ParticipanteUpdateView"
    /\ ~ultima.ok
    /\ inscritos_count(ultima.id) = 2
    /\ \E p \in ParticipanteIds :
          participantes[p] # NoParticipante /\ participantes[p].beneficiaria = 1

(***************************************************************************)
(* Attendance.                                                             *)
(***************************************************************************)
\* at most one stored row per (participante, fecha)
UnaPorFecha(tabla) ==
    \A a, b \in Filas(tabla) :
        (tabla[a].participante = tabla[b].participante /\ tabla[a].fecha = tabla[b].fecha)
        => a = b

\* C18: there is at most one Asistencia per (participante, fecha); a bulk
\* submission for a date replaces estado, observaciones and registrado_por of
\* the rows that exist and adds rows only for the participants that have none,
\* so that submitting the same form again changes nothing.
C18_UnaAsistenciaPorFecha ==
    [][/\ UnaPorFecha(asistencias')
       /\ \A fecha \in Fechas, envio \in Envios :
             AsistenciaMasiva(1, fecha, envio)
             => /\ \A a \in Filas(asistencias) :
                      /\ a \in Filas(asistencias')
                      /\ asistencias'[a].participante = asistencias[a].participante
                      /\ asistencias'[a].fecha = asistencias[a].fecha
                /\ \A p \in Confirmados(1) :
                      \E a \in Filas(asistencias') :
                          asistencias'[a] = FilaAsistencia(p, fecha, envio)
                /\ Cardinality(Filas(asistencias')) =
                      Cardinality(Filas(asistencias)) +
                      Cardinality({p \in Confirmados(1) :
                                      AsistenciasDe(asistencias, p, fecha) = {}})
                /\ GuardarAsistencias(asistencias', Confirmados(1), fecha, envio)
                      = asistencias']_vars

\* The bulk form was submitted for a date that already had the row of the
\* only confirmed participant: no row was created and the row carries the
\* submitted mark.
C18_Witness ==
    /\ ultima.op = "asistencia_masiva"
    /\ ultima.dato.creadas = 0
    /\ Cardinality(Filas(asistencias)) = 1
    /\ \E a \in Filas(asistencias) :
          /\ asistencias[a].fecha = ultima.dato.fecha
          /\ asistencias[a].estado = "AUSENTE"
          /\ asistencias[a].registrado_por = "eva"
    /\ Confirmados(1) # {}

\* C19: every stored attendance row is dated inside the period of its
\* participant's workshop.
C19_AsistenciaEnPeriodo ==
    \A a \in Filas(asistencias) :
        LET taller == talleres[participantes[asistencias[a].participante].taller] IN
        taller.fecha_inicio <= asistencias[a].fecha /\ asistencias[a].fecha <= taller.fecha_fin

(***************************************************************************)
(* Deletion and references.                                                *)
(***************************************************************************)
\* Every stored row refers to rows that are stored.
Integridad(tal, par, asi, eva, mat, cer, aco, ben) ==
    /\ \A p \in ParticipanteIds :
          par[p] # NoParticipante
          => /\ tal[par[p].taller] # NoTaller
             /\ \/ par[p].beneficiaria = SIN_BENEFICIARIA
                \/ /\ par[p].beneficiaria \in 1..Len(ben)
                   /\ ben[par[p].beneficiaria] # NoBeneficiaria
    /\ \A a \in AsistenciaIds :
          asi[a] # NoAsistencia => par[asi[a].participante] # NoParticipante
    /\ \A e \in EvaluacionIds :
          eva[e] # NoEvaluacion => par[eva[e].participante] # NoParticipante
    /\ \A m \in MaterialIds : mat[m] # NoMaterial => tal[mat[m].taller] # NoTaller
    /\ \A p \in ParticipanteIds : cer[p] > 0 => par[p] # NoParticipante
    /\ \A a \in AcompananteIds :
          aco[a] # NoAcompanante
          => /\ aco[a].beneficiaria \in 1..Len(ben)
             /\ ben[aco[a].beneficiaria] # NoBeneficiaria

\* C11: after deleting a Taller none of its participants and materials and
\* none of their attendance rows, evaluations and certificates remains; after
\* deleting a Beneficiaria every participant that referred to her still
\* exists, in the same workshop, with beneficiaria null; and after any
\* deletion no stored row refers to a row that is gone.
C11_BorradoConsistente ==
    [][/\ Integridad(talleres', participantes', asistencias', evaluaciones',
                     materiales', certificados', acompanantes', beneficiarias')
       /\ \A id \in {1} :
             TallerDelete(id)
             => LET ps == ParticipantesDe(id) IN
                /\ \A p \in ps : participantes'[p] = NoParticipante /\ certificados'[p] = 0
                /\ \A m \in MaterialIds :
                      materiales[m].taller = id => materiales'[m] = NoMaterial
                /\ \A a \in AsistenciaIds :
                      (asistencias[a] # NoAsistencia /\ asistencias[a].participante \in ps)
                      => asistencias'[a] = NoAsistencia
                /\ \A e \in EvaluacionIds :
                      evaluaciones[e].participante \in ps => evaluaciones'[e] = NoEvaluacion
       /\ (BeneficiariaDelete(1, 1) /\ ultima'.ok)
          => \A p \in ParticipanteIds :
                (participantes[p] # NoParticipante /\ participantes[p].beneficiaria = 1)
                => participantes'[p] =
                      [participantes[p] EXCEPT !.beneficiaria = SIN_BENEFICIARIA]]_vars

\* A workshop was deleted with all the participants in it and nothing is left
\* of them, while the beneficiary and her companion are still registered.
C11_Witness ==
    /\ ultima.op = "TallerDelete"
    /\ ultima.dato = NumParticipantes
    /\ \A p \in ParticipanteIds : participantes[p] = NoParticipante
    /\ \A a \in AsistenciaIds : asistencias[a] = NoAsistencia
    /\ BeneficiariaExiste(1)
    /\ acompanantes[1] # NoAcompanante

(***************************************************************************)
(* Cancellation against a running recalculation.                           *)
(***************************************************************************)
\* C12: when a request cancels a workshop that a running recalculation has
\* already loaded, the write of the recalculation does not undo the
\* cancellation: the stored estado stays CANCELADO.
C12_CancelacionNoSePierde ==
    [][\A id \in TallerIds :
          (RecalculoGuarda(id) /\ Cancelado(id))
          => talleres'[id].estado = "CANCELADO"]_vars

(***************************************************************************)
(* The status rule as a function of its three inputs.  The specification   *)
(* draws today and the dates of one stored workshop from DiasRegla (the    *)
(* admin site saves a Taller without TallerForm.clean, so fecha_fin may    *)
(* precede fecha_inicio) and every copy of the rule is applied by the      *)
(* code path that holds it.                                                *)
(***************************************************************************)
DiasRegla == 0..(MaxDia + 2)

InitRegla ==
    /\ hoy \in DiasRegla
    /\ InitTalleres
    /\ InitSocios
    /\ InitFinanzas
    /\ InitUsuarios
    /\ beneficiarias = << >>
    /\ ultima = Resp("Init", 0, TRUE, "-")

\* a Taller row saved through the admin site (default ModelForm)
TallerAdminSave(id, fi, ff) ==
    /\ ~Existe(id)
    /\ talleres' = [talleres EXCEPT ![id] =
           [estado |-> "PROGRAMADO", fecha_inicio |-> fi, fecha_fin |-> ff,
            capacidad |-> CAPACIDAD_MINIMA]]
    /\ ultima' = Resp("TallerAdmin", id, TRUE, "-")
    /\ UNCHANGED <<hoy, participantes, certificados, varsRegistros, cargados,
                   varsSocios, varsFinanzas,
                   beneficiarias, usuarios>>

NextRegla ==
    \/ \E fi \in DiasRegla, ff \in DiasRegla : TallerAdminSave(1, fi, ff)
    \/ \E fi \in Fechas, ff \in Fechas : TallerCreate(1, "PROGRAMADO", fi, ff, CAPACIDAD_MINIMA)
    \/ \E fi \in Fechas, ff \in Fechas :
          TallerUpdate(1, "PROGRAMADO", fi, ff, CAPACIDAD_MINIMA)
    \/ ListPage
    \/ DetailPage(1)
    \/ ComandoActualizarEstados
    \/ ComandoActualizarEstadosTalleres
    \/ ScriptActualizarEstados

SpecRegla == InitRegla /\ [][NextRegla]_vars

\* the values the seven copies compute for today h and the dates fi, ff
Copias(h, fi, ff) ==
    {EstadoLista(h, fi, ff), EstadoDetalle(h, fi, ff), EstadoCreate(h, fi, ff),
     EstadoUpdate(h, fi, ff), EstadoComando(h, fi, ff),
     EstadoComandoTalleres(h, fi, ff), EstadoScript(h, fi, ff)}

\* C26: for today and the dates of every stored workshop that is not
\* CANCELADO, fecha_fin < fecha_inicio included, the seven copies of the
\* status rule compute one and the same estado.
C26_CopiasCoinciden ==
    \A id \in TallerIds :
        (Existe(id) /\ talleres[id].estado # "CANCELADO")
            => Cardinality(Copias(hoy, talleres[id].fecha_inicio,
                                  talleres[id].fecha_fin)) = 1

\* the standalone script has recalculated a workshop whose fecha_fin precedes
\* fecha_inicio on a day strictly between the two
C26_Witness ==
    /\ ultima.op = "actualizar_estados.py"
    /\ Existe(1)
    /\ talleres[1].fecha_fin < hoy
    /\ hoy < talleres[1].fecha_inicio
    /\ talleres[1].estado = "PROGRAMADO"

(***************************************************************************)
(* User administration alone: the create, update and delete views of       *)
(* usuarios, requested by anybody.                                         *)
(***************************************************************************)
\* the accounts the requests come from and act on
Cuentas == {1, 2}

NextUsuarios ==
    \/ \E u \in {ANONIMO} \cup Cuentas, nuevo \in Cuentas, role \in ROLE_CHOICES,
          p \in Permisos : UsuarioCreate(u, nuevo, role, p)
    \/ \E u \in {ANONIMO} \cup Cuentas, otro \in Cuentas, role \in ROLE_CHOICES,
          p \in Permisos : UsuarioUpdate(u, otro, role, p)
    \/ \E u \in {ANONIMO} \cup Cuentas, otro \in Cuentas : UsuarioDelete(u, otro)

SpecUsuarios == Init /\ [][NextUsuarios]_vars

TieneTodos(fila) ==
    /\ fila.permiso_beneficiarias
    /\ fila.permiso_finanzas
    /\ fila.permiso_talleres
    /\ fila.permiso_reportes

\* C24: whenever UsuarioCreateView or UsuarioUpdateView saves a user with
\* role administrador, the saved row has the four module permissions True,
\* whatever flags the form submitted.
C24_AdministradorTieneTodos ==
    [][(ultima'.op \in {"UsuarioCreateView", "UsuarioUpdateView"} /\ ultima'.ok)
          => \A x \in UsuarioIds :
                (usuarios'[x] # usuarios[x] /\ usuarios'[x].role = "administrador")
                    => TieneTodos(usuarios'[x])]_vars

\* an employee without any permission was promoted to administrador through
\* UsuarioUpdateView and now holds the four permissions
C24_Witness ==
    /\ ultima.op = "UsuarioUpdateView"
    /\ ultima.ok
    /\ \E x \in UsuarioIds \ {1} :
          /\ usuarios[x] # NoUsuario
          /\ usuarios[x].role = "administrador"
          /\ TieneTodos(usuarios[x])

(***************************************************************************)
(* Enrollment submissions with the personal fields filled in or left       *)
(* empty, in one open workshop, with one registered beneficiary.           *)
(***************************************************************************)
DnisEnviados == {SIN_DNI} \cup Dnis

NextDatos ==
    \/ \E ff \in Fechas : TallerCreate(1, "PROGRAMADO", 1, ff, CAPACIDAD_MINIMA)
    \/ PasaDia
    \/ ListPage
    \/ Len(beneficiarias) < 1 /\ BeneficiariaCreate(1, PersonaAna)
    \/ BeneficiariaDelete(1, 1)
    \/ \E pid \in ParticipanteIds, nombres \in BOOLEAN, apellidos \in BOOLEAN,
          dni \in DnisEnviados, ben \in Refs :
          ParticipanteCreateView(1, pid, nombres, apellidos, dni, ben)
    \/ \E pid \in ParticipanteIds : ParticipanteDelete(pid)

SpecDatos == Init /\ [][NextDatos]_vars

\* C25: a submission that passes every other check (open workshop, selected
\* beneficiaria registered, not enrolled twice) is accepted exactly when a
\* beneficiaria is selected or nombres, apellidos and dni are all given.
C25_DatosSegunBeneficiaria ==
    [][\A pid \in ParticipanteIds, nombres \in BOOLEAN, apellidos \in BOOLEAN,
          dni \in DnisEnviados, ben \in Refs :
          (/\ ParticipanteCreateView(1, pid, nombres, apellidos, dni, ben)
           /\ InscripcionAbierta(talleres[1].estado)
           /\ ParticipanteFormValido(pid, 1, dni, ben))
          => (ultima'.ok <=>
                 (ben # SIN_BENEFICIARIA \/ (nombres /\ apellidos /\ dni # SIN_DNI)))]_vars

(***************************************************************************)
(* generar_certificado as the two database statements it is made of, for   *)
(* two requests served at the same time: the SELECT of the EMITIDO         *)
(* certificate of the participant and, when it found none, the INSERT.     *)
(* The view holds no lock and Certificado has no unique constraint on      *)
(* participante.  cargados keeps what every request in flight has read.    *)
(***************************************************************************)
Peticiones == {1, 2}
NoPeticion == [participante |-> 0]

PeticionEnCurso(r) ==
    IF cargados = NoCargados THEN NoPeticion ELSE cargados.peticiones[r]

PeticionesTras(r, valor) ==
    LET nuevas == [q \in Peticiones |-> IF q = r THEN valor ELSE PeticionEnCurso(q)]
    IN IF \A q \in Peticiones : nuevas[q] = NoPeticion
       THEN NoCargados
       ELSE [op |-> "generar_certificado", peticiones |-> nuevas]

\* the two gates, then Certificado.objects.filter(participante, estado='EMITIDO').first()
CertificadoFiltra(r, pid) ==
    /\ PeticionEnCurso(r) = NoPeticion
    /\ participantes[pid] # NoParticipante
    /\ LET tid == participantes[pid].taller IN
       IF participantes[pid].estado # "CONFIRMADO"
       THEN /\ cargados' = cargados
            /\ ultima' = Resp("generar_certificado", tid, FALSE, "NO_LEIDO")
       ELSE IF TallerSinFinalizar(talleres[tid].estado)
       THEN /\ cargados' = cargados
            /\ ultima' = Resp("generar_certificado", tid, FALSE, talleres[tid].estado)
       ELSE /\ cargados' = PeticionesTras(r, [participante |-> pid,
                                              certificado_existente |-> certificados[pid] > 0])
            /\ ultima' = Resp("Certificado.objects.filter", tid, TRUE, certificados[pid])
    /\ UNCHANGED <<hoy, varsTalleres, varsRegistros, varsSocios, varsFinanzas,
                   beneficiarias, usuarios>>

\* `if certificado_existente: ... else: Certificado.objects.create(...)`
CertificadoCrea(r) ==
    /\ PeticionEnCurso(r) # NoPeticion
    /\ LET pid == PeticionEnCurso(r).participante IN
       /\ certificados' = IF PeticionEnCurso(r).certificado_existente
                          THEN certificados
                          ELSE [certificados EXCEPT ![pid] = @ + 1]
       /\ cargados' = PeticionesTras(r, NoPeticion)
       /\ ultima' = Resp("generar_certificado", participantes[pid].taller, TRUE,
                         certificados'[pid])
    /\ UNCHANGED <<hoy, talleres, participantes, varsRegistros, varsSocios,
                   varsFinanzas, beneficiarias, usuarios>>

NextCertificado ==
    \/ PasaDia
    \/ \E ff \in Fechas : TallerCreate(1, "PROGRAMADO", 1, ff, CAPACIDAD_MINIMA)
    \/ ListPage
    \/ \E pid \in ParticipanteIds : ParticipanteCreate(1, pid, pid, SIN_BENEFICIARIA)
    \/ \E r \in Peticiones, pid \in ParticipanteIds : CertificadoFiltra(r, pid)
    \/ \E r \in Peticiones : CertificadoCrea(r)

SpecCertificado == Init /\ [][NextCertificado]_vars

\* C21: no participant ever has more than one Certificado with estado
\* EMITIDO, and once a request has been answered the participant has exactly
\* one, also when two requests for the participant are served concurrently.
C21_UnCertificadoEmitido ==
    /\ \A pid \in ParticipanteIds : certificados[pid] <= 1
    /\ (ultima.op = "generar_certificado" /\ ultima.ok) => ultima.dato = 1

(***************************************************************************)
(* Payments of members and their receipt numbers.  A comprobante is the    *)
(* string of its characters; << >> is the empty string.  The rows of       *)
(* PagoSocio fill the slots 1..n in the order of their ids, so the row     *)
(* with the greatest id is the one in the last filled slot.                *)
(***************************************************************************)
MaxComprobante == 3

\* the comprobante values a submission carries: empty, numbers, not a number
Comprobantes == {<< >>, <<"1">>, <<"2">>, <<"A">>}

\* int(ultimo_pago.comprobante) succeeds on a string of decimal digits
EsEntero(s) ==
    /\ s # << >>
    /\ \A i \in DOMAIN s : s[i] \in {"0", "1", "2", "3", "4", "5", "6", "7", "8", "9"}

RECURSIVE int(_)
int(s) ==
    LET Digito(c) == CHOOSE d \in 0..9 :
                        <<"0", "1", "2", "3", "4", "5", "6", "7", "8", "9">>[d + 1] = c
    IN IF Len(s) = 1 THEN Digito(s[1])
       ELSE 10 * int(SubSeq(s, 1, Len(s) - 1)) + Digito(s[Len(s)])

RECURSIVE str(_)
str(n) ==
    LET Cifra(d) == <<"0", "1", "2", "3", "4", "5", "6", "7", "8", "9">>[d + 1]
    IN IF n < 10 THEN <<Cifra(n)>> ELSE str(n \div 10) \o <<Cifra(n % 10)>>

PagosExistentes == {p \in PagoIds : pagos[p] # NoPago}

\* PagoSocio.get_next_comprobante
get_next_comprobante ==
    IF PagosExistentes = {} THEN <<"1">>
    ELSE LET ultimo_pago ==
                 pagos[CHOOSE p \in PagosExistentes : \A q \in PagosExistentes : q <= p]
         IN IF ultimo_pago.comprobante = << >> THEN <<"1">>
            ELSE IF EsEntero(ultimo_pago.comprobante)
            THEN str(int(ultimo_pago.comprobante) + 1)
            ELSE <<"1">>

\* PagoSocioCreateView.form_valid: a submission without comprobante gets the
\* next one; a submitted comprobante is saved as it came (the readonly
\* attribute of the widget binds only the browser).
PagoSocioCreate(s, fecha, comprobante) ==
    /\ Cardinality(PagosExistentes) < NumPagos
    /\ EsEntero(get_next_comprobante) /\ int(get_next_comprobante) <= MaxComprobante
    /\ LET nuevo == Cardinality(PagosExistentes) + 1 IN
       IF socios[s] = NoSocio
       THEN /\ pagos' = pagos
            /\ ultima' = Resp("PagoSocioCreateView", nuevo, FALSE, "socio")
       ELSE LET pago == [socio |-> s, fecha |-> fecha,
                         comprobante |-> IF comprobante = << >>
                                         THEN get_next_comprobante ELSE comprobante]
            IN /\ pagos' = [pagos EXCEPT ![nuevo] = pago]
               /\ ultima' = Resp("PagoSocioCreateView", nuevo, TRUE, pago.comprobante)
    /\ UNCHANGED <<hoy, varsTalleres, varsRegistros, cargados, socios, varsFinanzas,
                   beneficiarias, usuarios>>

\* PagoSocioUpdateView: self.object is the instance of the form, so when
\* form_valid runs the validation has already written the submitted
\* comprobante into it; the assignment of form_valid copies the attribute
\* onto itself.
PagoSocioUpdate(p, fecha, comprobante) ==
    /\ pagos[p] # NoPago
    /\ LET objeto == [pagos[p] EXCEPT !.fecha = fecha, !.comprobante = comprobante]
           instance == IF objeto.comprobante # << >>
                       THEN [objeto EXCEPT !.comprobante = objeto.comprobante]
                       ELSE objeto
       IN /\ pagos' = [pagos EXCEPT ![p] = instance]
          /\ ultima' = Resp("PagoSocioUpdateView", p, TRUE, instance.comprobante)
    /\ UNCHANGED <<hoy, varsTalleres, varsRegistros, cargados, socios, varsFinanzas,
                   beneficiarias, usuarios>>

\* PagoSocioDeleteView; the later rows move one slot down
PagoSocioDelete(p) ==
    /\ pagos[p] # NoPago
    /\ pagos' = [q \in PagoIds |->
                    IF q < p THEN pagos[q]
                    ELSE IF q + 1 \in PagoIds THEN pagos[q + 1] ELSE NoPago]
    /\ ultima' = Resp("PagoSocioDeleteView", p, TRUE, pagos[p].comprobante)
    /\ UNCHANGED <<hoy, varsTalleres, varsRegistros, cargados, socios, varsFinanzas,
                   beneficiarias, usuarios>>

\* the members are registered, no payment yet
InitPagos ==
    /\ hoy = 0
    /\ InitTalleres
    /\ socios = [s \in SocioIds |-> [fecha_registro |-> 0]]
    /\ pagos = [p \in PagoIds |-> NoPago]
    /\ InitFinanzas
    /\ InitUsuarios
    /\ beneficiarias = << >>
    /\ ultima = Resp("Init", 0, TRUE, "-")

NextPagos ==
    \/ \E s \in SocioIds, fecha \in FechasSocio, comprobante \in Comprobantes :
          PagoSocioCreate(s, fecha, comprobante)
    \/ \E p \in PagoIds, fecha \in FechasSocio, comprobante \in Comprobantes :
          PagoSocioUpdate(p, fecha, comprobante)
    \/ \E p \in PagoIds : PagoSocioDelete(p)

SpecPagos == InitPagos /\ [][NextPagos]_vars

\* C22: after any sequence of payment creations, edits and deletions no two
\* existing payments have the same comprobante.
C22_ComprobantesDistintos ==
    \A p \in PagosExistentes, q \in PagosExistentes :
        p # q => pagos[p].comprobante # pagos[q].comprobante

\* C23: an accepted edit of a payment whose stored comprobante is not empty
\* leaves the stored comprobante as it was, whatever the submission carried.
C23_ComprobanteNoCambia ==
    [][\A p \in PagoIds :
          (/\ ultima'.op = "PagoSocioUpdateView"
           /\ ultima'.ok
           /\ ultima'.id = p
           /\ pagos[p] # NoPago
           /\ pagos[p].comprobante # << >>)
          => pagos'[p].comprobante = pagos[p].comprobante]_vars

====
